---- MODULE Spec2Model ----
(***************************************************************************)
(* Model of server/dsp.py: radix-2 FFT / inverse FFT, Hann window, STFT,   *)
(* overlap-add ISTFT and the EQ modifier built from an EQScheme.           *)
(*                                                                         *)
(* float64 samples are modelled as exact rationals <<num, den>> (den > 0,  *)
(* lowest terms) plus one distinguished NaN value <<0, 0>>; rounding error *)
(* of float64 is outside the model.  numpy arrays are sequences (index i   *)
(* of the code is index i+1 here).  Arrays that the code shares by         *)
(* reference (the arrays stored in an STFT bundle) live in `heap`.         *)
(***************************************************************************)
EXTENDS Integers, Sequences, FiniteSets, TLC

VARIABLES
    real, imag,         \* the caller's FFT buffers (numpy arrays passed to fft/ifft)
    realIn, imagIn,     \* their contents when the caller allocated them
    realPre, imagPre,   \* their contents just before the latest call
    fftOps,             \* the calls made on the buffers so far, in order
    fftErr              \* outcome of the latest call: "none", "ok", "IndexError", "ValueError"

fftVars == <<real, imag, realIn, imagIn, realPre, imagPre, fftOps, fftErr>>

VARIABLES
    signal, win, hop,   \* the arguments the caller passes to stft
    heap,               \* the numpy arrays reachable from the bundle: array id -> contents
    bundle,             \* the dict returned by stft (arrays by id), or NoBundle
    scheme,             \* the caller's EQScheme: [sample_rate, bands]
    heapPre,            \* heap just before the latest istft call
    call,               \* arguments of the latest istft call: [modifier, out_len], or NoCall
    res                 \* what the latest istft call computed, or NoRes

pipeVars == <<signal, win, hop, heap, bundle, scheme, heapPre, call, res>>

VARIABLES
    mre, mim,           \* one frame's buffers, handed to a modifier
    mreIn, mimIn,       \* their contents before the modifier ran
    mN,                 \* the N handed to the modifier
    mArgs,              \* the arguments of the add_band calls made, in order
    mApplied            \* whether the modifier has run

modVars == <<mre, mim, mreIn, mimIn, mN, mArgs, mApplied>>

VARIABLES
    p2n, p2res          \* argument and result of a next_pow2 call (result 0: not called)

pow2Vars == <<p2n, p2res>>

VARIABLES
    clampIn,            \* the list the caller first hands to clamp_signal
    clampOut,           \* the latest list clamp_signal returned
    clampCalls          \* calls made, each on the previous result

clampVars == <<clampIn, clampOut, clampCalls>>

VARIABLES
    pipes,              \* two requests, each with its own signal, scheme, bundle, output
    procHeap            \* the numpy arrays of the process, shared by both requests

concVars == <<pipes, procHeap>>

VARIABLES
    proc,               \* one /api/process request: its position, the engine calls made, its output
    fftRun,             \* one fft call followed loop iteration by loop iteration
    stftRun,            \* one stft call followed iteration by iteration
    demucs              \* the /api/demucs requests in flight and the files of the server

lateVars == <<proc, fftRun, stftRun, demucs>>

extVars == <<modVars, pow2Vars, clampVars, concVars, lateVars>>

vars == <<fftVars, pipeVars, extVars>>

----------------------------------------------------------------------------
(* Bounds *)

MaxFftLen == 4      \* longest buffer handed to fft/ifft directly
MaxFftOps == 2      \* calls made on one pair of buffers

FftVals == {-1, 2}  \* sample values the caller puts in the buffers

MaxSigLen == 5      \* longest signal handed to stft
MaxWin == 3         \* largest requested window length
MaxHop == 2         \* largest hop
MaxOutLen == 6      \* largest explicit out_len handed to istft
MaxBands == 1       \* bands added to one scheme

SigVals == {-1, 2}  \* sample values of the signal

SampleRates == {8}

\* the bands the caller may add: <<start_hz, width_hz, gain>>
BandChoices == {<<0, 4, 0>>, <<0, 4, 1>>, <<2, 1, 0>>, <<2, 1, 2>>}

----------------------------------------------------------------------------
(* float64 arithmetic, as exact rationals with NaN *)

NaN == <<0, 0>>

IsNaN(a) == a[2] = 0

Abs(n) == IF n < 0 THEN -n ELSE n

RECURSIVE GCD(_, _)
GCD(a, b) == IF b = 0 THEN a ELSE GCD(b, a % b)

\* the rational n/d (d # 0) in lowest terms with a positive denominator
Norm(n, d) ==
    LET g == GCD(Abs(n), Abs(d))
        s == IF d < 0 THEN -1 ELSE 1
    IN  <<s * (n \div g), Abs(d) \div g>>

F(n) == <<n, 1>>

Zero == F(0)

One == F(1)

RAdd(a, b) == IF IsNaN(a) \/ IsNaN(b) THEN NaN
              ELSE Norm(a[1] * b[2] + b[1] * a[2], a[2] * b[2])

RNeg(a) == IF IsNaN(a) THEN NaN ELSE <<-a[1], a[2]>>

RSub(a, b) == RAdd(a, RNeg(b))

RMul(a, b) == IF IsNaN(a) \/ IsNaN(b) THEN NaN
              ELSE Norm(a[1] * b[1], a[2] * b[2])

\* a / b; a zero divisor gives NaN (numpy: 0/0 = nan)
RDiv(a, b) == IF IsNaN(a) \/ IsNaN(b) \/ b[1] = 0 THEN NaN
              ELSE Norm(a[1] * b[2], a[2] * b[1])

\* a > b; every comparison with NaN is False
RGt(a, b) == ~IsNaN(a) /\ ~IsNaN(b) /\ a[1] * b[2] > b[1] * a[2]

RLt(a, b) == RGt(b, a)

\* elementwise operations on arrays of the same length
ArrMul(x, y) == [i \in 1..Len(x) |-> RMul(x[i], y[i])]

ArrScale(x, c) == [i \in 1..Len(x) |-> RMul(x[i], c)]

RECURSIVE Pow2(_)
Pow2(k) == IF k = 0 THEN 1 ELSE 2 * Pow2(k - 1)

----------------------------------------------------------------------------
(* next_pow2, bit_reverse *)

\* the loop with the test p <= n in place of p < n
RECURSIVE next_pow2_loop_Past(_, _)
next_pow2_loop_Past(p, n) == IF p <= n THEN next_pow2_loop_Past(2 * p, n) ELSE p

RECURSIVE next_pow2_loop(_, _)
next_pow2_loop(p, n) == IF p < n THEN next_pow2_loop(2 * p, n) ELSE p

next_pow2(n) == next_pow2_loop(1, n)

RECURSIVE bit_reverse_loop(_, _, _, _)
bit_reverse_loop(x, bits, i, r) ==
    IF i >= bits THEN r
    ELSE bit_reverse_loop(x, bits, i + 1, 2 * r + ((x \div Pow2(i)) % 2))

bit_reverse(x, bits) == bit_reverse_loop(x, bits, 0, 0)

\* int(log2(n)) for n >= 1
RECURSIVE IntLog2(_)
IntLog2(n) == IF n < 2 THEN 0 ELSE 1 + IntLog2(n \div 2)

----------------------------------------------------------------------------
(* fft: a run is a record [re, im, err]; err # "ok" is the exception that  *)
(* ended the run, re/im the buffers as the exception left them.            *)

Run(re, im, err) == [re |-> re, im |-> im, err |-> err]

Swap(s, i, j) == [s EXCEPT ![i] = s[j], ![j] = s[i]]

\* the iteration with the test j != i in place of j > i
SwapStep_Both(st, i, bits) ==
    IF bit_reverse(i, bits) = i THEN st
    ELSE Run(Swap(st.re, i + 1, bit_reverse(i, bits) + 1),
             Swap(st.im, i + 1, bit_reverse(i, bits) + 1), "ok")

\* one iteration of the bit-reversal loop for 0-based index i
SwapStep(st, i, bits) ==
    LET j == bit_reverse(i, bits) IN
    IF j <= i THEN st
    ELSE LET re2 == Swap(st.re, i + 1, j + 1) IN
         IF j >= Len(st.im) THEN Run(re2, st.im, "IndexError")
         ELSE Run(re2, Swap(st.im, i + 1, j + 1), "ok")

RECURSIVE BitReversal(_, _, _, _)
BitReversal(st, i, n, bits) ==
    IF i >= n \/ st.err # "ok" THEN st
    ELSE BitReversal(SwapStep(st, i, bits), i + 1, n, bits)

\* (cos(theta), sin(theta)) for theta = -2*pi/size
CosSin(size) ==
    CASE size = 2 -> <<F(-1), Zero>>
      [] size = 4 -> <<Zero, F(-1)>>

\* one butterfly on the pair (a, b), 0-based, with twiddle (wre, wim)
Butterfly(st, a, b, wre, wim) ==
    IF b >= Len(st.re) \/ b >= Len(st.im) THEN Run(st.re, st.im, "IndexError")
    ELSE
    LET xr == RSub(RMul(st.re[b + 1], wre), RMul(st.im[b + 1], wim))
        xi == RAdd(RMul(st.re[b + 1], wim), RMul(st.im[b + 1], wre))
    IN  Run([st.re EXCEPT ![b + 1] = RSub(st.re[a + 1], xr),
                          ![a + 1] = RAdd(st.re[a + 1], xr)],
            [st.im EXCEPT ![b + 1] = RSub(st.im[a + 1], xi),
                          ![a + 1] = RAdd(st.im[a + 1], xi)],
            "ok")

\* the inner loop: butterflies j..half-1 of the block starting at i0
RECURSIVE Block(_, _, _, _, _, _, _)
Block(st, i0, j, half, wre, wim, wmul) ==
    IF j >= half \/ st.err # "ok" THEN st
    ELSE Block(Butterfly(st, i0 + j, i0 + j + half, wre, wim),
               i0, j + 1, half,
               RSub(RMul(wre, wmul[1]), RMul(wim, wmul[2])),
               RAdd(RMul(wre, wmul[2]), RMul(wim, wmul[1])),
               wmul)

\* the middle loop: blocks i0, i0+size, ... below n
RECURSIVE Blocks(_, _, _, _)
Blocks(st, i0, size, n) ==
    IF i0 >= n \/ st.err # "ok" THEN st
    ELSE Blocks(Block(st, i0, 0, size \div 2, One, Zero, CosSin(size)),
                i0 + size, size, n)

\* the outer loop: stages size, 2*size, ... up to n
RECURSIVE Stages(_, _, _)
Stages(st, size, n) ==
    IF size > n \/ st.err # "ok" THEN st
    ELSE Stages(Blocks(st, 0, size, n), 2 * size, n)

fft(re, im) ==
    LET n == Len(re) IN
    IF n = 0 THEN Run(re, im, "ValueError")      \* log2(0): math domain error
    ELSE Stages(BitReversal(Run(re, im, "ok"), 0, n, IntLog2(n)), 2, n)

\* ifft with the 1/N scaling of the real buffer left out
ifft_NoScale(re, im) ==
    LET n  == Len(re)
        st == fft(re, ArrScale(im, F(-1)))
    IN  IF st.err # "ok" THEN st
        ELSE Run(st.re, ArrScale(st.im, Norm(-1, n)), "ok")

ifft(re, im) ==
    LET n  == Len(re)
        st == fft(re, ArrScale(im, F(-1)))
    IN  IF st.err # "ok" THEN st
        ELSE Run(ArrScale(st.re, Norm(1, n)), ArrScale(st.im, Norm(-1, n)), "ok")

----------------------------------------------------------------------------
(* hann, stft *)

\* cos(2*pi*n/d) for the arguments that occur with N in {1, 2, 4};
\* n/0 is nan for n = 0 (0/0) and so is its cosine
Cos2Pi(n, d) ==
    CASE d = 0                  -> NaN
      [] d # 0 /\ n % d = 0     -> One
      [] d # 0 /\ 3 * (n % d) \in {d, 2 * d} -> Norm(-1, 2)

hann(N) == [i \in 1..N |-> RMul(Norm(1, 2), RSub(One, Cos2Pi(i - 1, N - 1)))]

\* Python's s[lo:hi] for 0 <= lo
Slice(s, lo, hi) ==
    LET l == IF lo > Len(s) THEN Len(s) ELSE lo
        h == IF hi > Len(s) THEN Len(s) ELSE hi
    IN  IF h <= l THEN <<>> ELSE [i \in 1..(h - l) |-> s[l + i]]

\* Python's s[:k], k possibly negative
SliceTo(s, k) == IF k >= 0 THEN Slice(s, 0, k)
                 ELSE Slice(s, 0, IF Len(s) + k < 0 THEN 0 ELSE Len(s) + k)

\* np.zeros(n) returning an array that is not cleared
Zeros_Ones(n) == [i \in 1..n |-> One]

\* np.zeros(n)
Zeros(n) == [i \in 1..n |-> Zero]

NoBundle == [frames |-> <<>>, reals |-> <<>>, imags |-> <<>>, N |-> 0, hop |-> 0]

\* the transformed buffers kept in slots numbered by the frame count of
\* the call, the same slots for every call
AppendFrame_Static(st, start, r) ==
    [heap   |-> LET h1 == IF 2 * Len(st.frames) + 1 <= Len(st.heap)
                          THEN [st.heap EXCEPT ![2 * Len(st.frames) + 1] = r.re]
                          ELSE Append(st.heap, r.re)
                IN  IF 2 * Len(st.frames) + 2 <= Len(h1)
                    THEN [h1 EXCEPT ![2 * Len(st.frames) + 2] = r.im]
                    ELSE Append(h1, r.im),
     frames |-> Append(st.frames, start),
     reals  |-> Append(st.reals, 2 * Len(st.frames) + 1),
     imags  |-> Append(st.imags, 2 * Len(st.frames) + 2)]

\* frames.append(start); reals.append(re); imags.append(im), for the
\* transformed buffers r
AppendFrame(st, start, r) ==
    [heap   |-> Append(Append(st.heap, r.re), r.im),
     frames |-> Append(st.frames, start),
     reals  |-> Append(st.reals, Len(st.heap) + 1),
     imags  |-> Append(st.imags, Len(st.heap) + 2)]

\* the frame loop with `<` for `<=` in its condition
RECURSIVE StftLoop_Strict(_, _, _, _, _, _)
StftLoop_Strict(st, sig, start, N, w, hp) ==
    IF start + N >= Len(sig) THEN st
    ELSE StftLoop_Strict(AppendFrame(st, start,
                                     fft(ArrMul(Slice(sig, start, start + N), w), Zeros(N))),
                         sig, start + hp, N, w, hp)

\* the frame loop of stft: st = [heap, frames, reals, imags]
RECURSIVE StftLoop(_, _, _, _, _, _)
StftLoop(st, sig, start, N, w, hp) ==
    IF start + N > Len(sig) THEN st
    ELSE StftLoop(AppendFrame(st, start,
                              fft(ArrMul(Slice(sig, start, start + N), w), Zeros(N))),
                  sig, start + hp, N, w, hp)

\* the returned dict with the values of N and hop exchanged
StftReturn_Swapped(st, N, hp) ==
    [heap   |-> st.heap,
     bundle |-> [frames |-> st.frames, reals |-> st.reals, imags |-> st.imags,
                 N |-> hp, hop |-> N]]

\* stft(signal, win, hop) run with the arrays of `h` already allocated
StftReturn(st, N, hp) ==
    [heap   |-> st.heap,
     bundle |-> [frames |-> st.frames, reals |-> st.reals, imags |-> st.imags,
                 N |-> N, hop |-> hp]]

stft(h, sig, wn, hp) ==
    StftReturn(StftLoop([heap |-> h, frames |-> <<>>, reals |-> <<>>, imags |-> <<>>],
                        sig, 0, next_pow2(wn), hann(next_pow2(wn)), hp),
               next_pow2(wn), hp)

----------------------------------------------------------------------------
(* EQScheme and the modifier built from it *)

EQScheme(sample_rate) == [sample_rate |-> sample_rate, bands |-> <<>>]

add_band(sch, start_hz, width_hz, gain) ==
    [sch EXCEPT !.bands = Append(@, [startHz |-> start_hz, widthHz |-> width_hz,
                                     gain |-> gain])]

Max(a, b) == IF a >= b THEN a ELSE b

Min(a, b) == IF a <= b THEN a ELSE b

\* int(x): truncation towards zero
RTrunc(a) == IF a[1] >= 0 THEN a[1] \div a[2] ELSE -((-a[1]) \div a[2])

start_bin(b, sr, N) == Max(0, RTrunc(RDiv(b.startHz, Norm(sr, N))))

\* the end bin without the clamp to N >> 1
end_bin_Unclamped(b, sr, N) ==
    LET e == RTrunc(RDiv(RAdd(b.startHz, b.widthHz), Norm(sr, N)))
    IN  IF e <= start_bin(b, sr, N) THEN start_bin(b, sr, N) + 1 ELSE e

end_bin(b, sr, N) ==
    LET e == Min(N \div 2, RTrunc(RDiv(RAdd(b.startHz, b.widthHz), Norm(sr, N))))
    IN  IF e <= start_bin(b, sr, N) THEN Min(N \div 2, start_bin(b, sr, N) + 1) ELSE e

\* the bin is set to the gain ("=" for "*=")
ScaleAt_Set(st, k, g) == [re |-> [st.re EXCEPT ![k + 1] = g],
                          im |-> [st.im EXCEPT ![k + 1] = g]]

ScaleAt(st, k, g) == [re |-> [st.re EXCEPT ![k + 1] = RMul(@, g)],
                      im |-> [st.im EXCEPT ![k + 1] = RMul(@, g)]]

\* the loop over k without the scaling of the mirror bin N-k
RECURSIVE BinLoop_NoMirror(_, _, _, _, _)
BinLoop_NoMirror(st, k, e, N, g) ==
    IF k >= e THEN st ELSE BinLoop_NoMirror(ScaleAt(st, k, g), k + 1, e, N, g)

\* the loop over k with the mirror taken one bin low, at N-k-1
RECURSIVE BinLoop_MirrorLow(_, _, _, _, _)
BinLoop_MirrorLow(st, k, e, N, g) ==
    IF k >= e THEN st
    ELSE LET s1 == ScaleAt(st, k, g)
             s2 == IF k # 0 /\ k # N \div 2 THEN ScaleAt(s1, N - k - 1, g) ELSE s1
         IN  BinLoop_MirrorLow(s2, k + 1, e, N, g)

\* the loop over k in range(start_bin, end_bin); st = [re, im]
RECURSIVE BinLoop(_, _, _, _, _)
BinLoop(st, k, e, N, g) ==
    IF k >= e THEN st
    ELSE LET s1 == ScaleAt(st, k, g)
             s2 == IF k # 0 /\ k # N \div 2 THEN ScaleAt(s1, N - k, g) ELSE s1
         IN  BinLoop(s2, k + 1, e, N, g)

\* the gain is used as stored, without the g < 0 test
ApplyBand_Signed(st, b, sr, N) ==
    IF ~RGt(b.widthHz, Zero) THEN st
    ELSE BinLoop(st, start_bin(b, sr, N), end_bin(b, sr, N), N, b.gain)

ApplyBand(st, b, sr, N) ==
    LET g == IF RLt(b.gain, Zero) THEN Zero ELSE b.gain IN
    IF ~RGt(b.widthHz, Zero) THEN st
    ELSE BinLoop(st, start_bin(b, sr, N), end_bin(b, sr, N), N, g)

\* only the last band added is applied
BandsLoop_Last(st, sch, i, N) ==
    IF sch.bands = <<>> THEN st
    ELSE ApplyBand(st, sch.bands[Len(sch.bands)], sch.sample_rate, N)

RECURSIVE BandsLoop(_, _, _, _)
BandsLoop(st, sch, i, N) ==
    IF i > Len(sch.bands) THEN st
    ELSE BandsLoop(ApplyBand(st, sch.bands[i], sch.sample_rate, N), sch, i + 1, N)

\* make_modifier_from_scheme(sch)(re, im, N)
modifier(sch, re, im, N) == BandsLoop([re |-> re, im |-> im], sch, 1, N)

----------------------------------------------------------------------------
(* istft *)

\* np.array(a): a fresh array with the contents of array `id`
NpArray_Alias(h, id) == [heap |-> h, id |-> id]

NpArray(h, id) == [heap |-> Append(h, h[id]), id |-> Len(h) + 1]

\* x > 1e-12
GtThreshold(a) ==
    /\ ~IsNaN(a)
    /\ a[1] > 0
    /\ (a[1] >= 2148 \/ a[1] * 1000000 > a[2] \div 1000000)

\* arr[lo:lo+m] += seg, with numpy's broadcast of a one-element seg
AddAt(arr, lo, m, seg) ==
    [i \in 1..Len(arr) |->
        IF lo < i /\ i <= lo + m
        THEN RAdd(arr[i], IF Len(seg) = 1 THEN seg[1] ELSE seg[i - lo])
        ELSE arr[i]]

\* w[:nlen] ** 2 without the square
WindowEnergy_Plain(w, nlen) == SliceTo(w, nlen)

\* w[:nlen] ** 2
WindowEnergy(w, nlen) == ArrMul(SliceTo(w, nlen), SliceTo(w, nlen))

\* re = np.array(reals[f]); im = np.array(imags[f]): c = [heap, re, im, err]
FrameCopies(c1, imId) ==
    [heap |-> NpArray(c1.heap, imId).heap, re |-> c1.id,
     im |-> NpArray(c1.heap, imId).id, err |-> "ok"]

\* the in-place result r = [re, im, err] of a call on the arrays c.re, c.im
Store(c, r) ==
    [heap |-> [[c.heap EXCEPT ![c.re] = r.re] EXCEPT ![c.im] = r.im],
     re |-> c.re, im |-> c.im, err |-> r.err]

\* if modifier is not None: modifier(re, im, N)
Modify(c, useMod, sch, N) ==
    IF useMod THEN Store(c, Run(modifier(sch, c.heap[c.re], c.heap[c.im], N).re,
                                modifier(sch, c.heap[c.re], c.heap[c.im], N).im, "ok"))
    ELSE c

\* ifft(re, im)
Inverse(c) == Store(c, ifft(c.heap[c.re], c.heap[c.im]))

\* out[start:end] += seg; norm[start:end] += w[:nlen] ** 2, for the slice
\* of cnt elements starting at lo
OverlapAdd(st, c, f, lo, cnt, seg, sq) ==
    IF Len(seg) # cnt /\ Len(seg) # 1
    THEN [st EXCEPT !.heap = c.heap, !.err = "ValueError"]
    ELSE [heap   |-> c.heap,
          out    |-> AddAt(st.out, lo, cnt, seg),
          norm   |-> AddAt(st.norm, lo, cnt, sq),
          err    |-> "ok",
          writes |-> Append(st.writes, [frame |-> f, lo |-> lo, hi |-> lo + cnt])]

\* the body of the frame loop after ifft, with start = f * hop
Segment(st, c, f, start, N, w, length) ==
    IF c.err # "ok" THEN [st EXCEPT !.heap = c.heap, !.err = c.err]
    ELSE OverlapAdd(st, c, f, Min(start, length),
                    Len(Slice(st.out, start, Min(start + N, length))),
                    ArrMul(SliceTo(c.heap[c.re], Min(start + N, length) - start),
                           SliceTo(w, Min(start + N, length) - start)),
                    WindowEnergy(w, Min(start + N, length) - start))

\* the iteration with frame f placed at f * N, as if hop were N
IstftFrame_Packed(st, f, bd, useMod, sch, w, length) ==
    Segment(st,
            Inverse(Modify(FrameCopies(NpArray(st.heap, bd.reals[f + 1]), bd.imags[f + 1]),
                           useMod, sch, bd.N)),
            f, f * bd.N, bd.N, w, length)

\* one iteration of the frame loop, f 0-based;
\* st = [heap, out, norm, err, writes]
IstftFrame(st, f, bd, useMod, sch, w, length) ==
    Segment(st,
            Inverse(Modify(FrameCopies(NpArray(st.heap, bd.reals[f + 1]), bd.imags[f + 1]),
                           useMod, sch, bd.N)),
            f, f * bd.hop, bd.N, w, length)

RECURSIVE IstftLoop(_, _, _, _, _, _, _)
IstftLoop(st, f, bd, useMod, sch, w, length) ==
    IF f >= Len(bd.reals) \/ st.err # "ok" THEN st
    ELSE IstftLoop(IstftFrame(st, f, bd, useMod, sch, w, length),
                   f + 1, bd, useMod, sch, w, length)

\* the output length when out_len is None
DefaultLength(bd) == Len(bd.reals) * bd.hop + bd.N

\* the normalisation without the norm > 1e-12 mask
Normalise_All(out, norm) == [i \in 1..Len(out) |-> RDiv(out[i], norm[i])]

\* out[nz] = out[nz] / norm[nz] with nz = norm > 1e-12
Normalise(out, norm) ==
    [i \in 1..Len(out) |-> IF GtThreshold(norm[i]) THEN RDiv(out[i], norm[i]) ELSE out[i]]

\* the output length taken from the frame count alone, whatever out_len is
IstftLength_Frames(bd, hasLen, outLen) == Len(bd.reals) * bd.hop

\* length = out_len if out_len is not None else (len(reals) * hop + N)
IstftLength(bd, hasLen, outLen) == IF hasLen THEN outLen ELSE DefaultLength(bd)

\* what istft leaves behind when its frame loop ended in st
IstftReturn(h, st) ==
    [heap   |-> SubSeq(st.heap, 1, Len(h)),
     err    |-> st.err,
     acc    |-> st.out,
     norm   |-> st.norm,
     writes |-> st.writes,
     out    |-> IF st.err = "ok" THEN Normalise(st.out, st.norm) ELSE <<>>]

\* istft(modifier, stft_data, out_len); useMod = FALSE is modifier=None,
\* hasLen = FALSE is out_len=None.  The arrays allocated during the call
\* are unreachable afterwards and are dropped from the returned heap.
istft(h, useMod, sch, bd, hasLen, outLen) ==
    IstftReturn(h, IstftLoop([heap |-> h, out |-> Zeros(IstftLength(bd, hasLen, outLen)),
                              norm |-> Zeros(IstftLength(bd, hasLen, outLen)),
                              err |-> "ok", writes |-> <<>>],
                             0, bd, useMod, sch, hann(bd.N),
                             IstftLength(bd, hasLen, outLen)))

----------------------------------------------------------------------------
(* clamp_signal *)

\* a clip with the upper limit only
Clip_Upper(x, lo, hi) == IF RGt(x, hi) THEN hi ELSE x

\* np.clip on one element: NaN passes through
Clip(x, lo, hi) == IF RLt(x, lo) THEN lo ELSE IF RGt(x, hi) THEN hi ELSE x

\* the list returned as it came
clamp_signal_Skip(sig) == sig

\* np.asarray(sig, dtype=np.float64), np.clip(arr, -1.0, 1.0), arr.tolist()
clamp_signal(sig) == [i \in 1..Len(sig) |-> Clip(sig[i], F(-1), F(1))]

----------------------------------------------------------------------------
(* A caller that allocates two buffers and calls fft / ifft on them *)

NoCall == [made |-> FALSE, modifier |-> FALSE, hasLen |-> FALSE, out_len |-> 0]

NoRes == [heap |-> <<>>, err |-> "none", acc |-> <<>>, norm |-> <<>>, writes |-> <<>>, out |-> <<>>]

PipeIdle ==
    /\ signal = <<>> /\ win = 1 /\ hop = 1
    /\ heap = <<>> /\ bundle = NoBundle
    /\ scheme = EQScheme(8)
    /\ heapPre = <<>> /\ call = NoCall /\ res = NoRes

FftIdle ==
    /\ real = <<>> /\ imag = <<>> /\ realIn = <<>> /\ imagIn = <<>>
    /\ realPre = <<>> /\ imagPre = <<>> /\ fftOps = <<>> /\ fftErr = "none"

ModIdle ==
    /\ mre = <<>> /\ mim = <<>> /\ mreIn = <<>> /\ mimIn = <<>>
    /\ mN = 1 /\ mArgs = <<>> /\ mApplied = FALSE

Pow2Idle == p2n = 1 /\ p2res = 0

ClampIdle == clampIn = <<>> /\ clampOut = <<>> /\ clampCalls = 0

ConcIdle == pipes = <<>> /\ procHeap = <<>>

LateIdle == proc = <<>> /\ fftRun = <<>> /\ stftRun = <<>> /\ demucs = <<>>

ExtIdle == ModIdle /\ Pow2Idle /\ ClampIdle /\ ConcIdle /\ LateIdle

\* everything but the four variables of the step-by-step callers
OtherIdle ==
    /\ FftIdle /\ PipeIdle
    /\ ModIdle /\ Pow2Idle /\ ClampIdle /\ ConcIdle

OtherUnchanged ==
    UNCHANGED <<fftVars, pipeVars, modVars, pow2Vars, clampVars, concVars>>

FftBuffers(n) == [1..n -> {F(v) : v \in FftVals}]

InitFft ==
    /\ \E n \in 0..MaxFftLen :
         \E m \in {k \in {n - 1, n, n + 1} : k >= 0} :
           /\ real \in FftBuffers(n)
           /\ imag \in FftBuffers(m)
    /\ realIn = real
    /\ imagIn = imag
    /\ realPre = real
    /\ imagPre = imag
    /\ fftOps = <<>>
    /\ fftErr = "none"
    /\ PipeIdle
    /\ ExtIdle

CanCall == Len(fftOps) < MaxFftOps /\ fftErr \in {"none", "ok"}

CallFft ==
    /\ CanCall
    /\ LET st == fft(real, imag) IN
         /\ real' = st.re
         /\ imag' = st.im
         /\ fftErr' = st.err
    /\ realPre' = real
    /\ imagPre' = imag
    /\ fftOps' = Append(fftOps, "fft")
    /\ UNCHANGED <<realIn, imagIn, pipeVars, extVars>>

CallIfft ==
    /\ CanCall
    /\ LET st == ifft(real, imag) IN
         /\ real' = st.re
         /\ imag' = st.im
         /\ fftErr' = st.err
    /\ realPre' = real
    /\ imagPre' = imag
    /\ fftOps' = Append(fftOps, "ifft")
    /\ UNCHANGED <<realIn, imagIn, pipeVars, extVars>>

NextFft == CallFft \/ CallIfft

SpecFft == InitFft /\ [][NextFft]_vars

----------------------------------------------------------------------------
(* A caller that analyses a signal, builds an EQScheme and synthesises *)

Signals == UNION {[1..n -> {F(v) : v \in SigVals}] : n \in 0..MaxSigLen}

Init ==
    /\ FftIdle
    /\ ExtIdle
    /\ signal \in Signals
    /\ win \in 1..MaxWin
    /\ hop \in 1..MaxHop
    /\ heap = <<>>
    /\ bundle = NoBundle
    /\ scheme \in {EQScheme(sr) : sr \in SampleRates}
    /\ heapPre = <<>>
    /\ call = NoCall
    /\ res = NoRes

Analysed == bundle.N # 0

Stft ==
    /\ ~Analysed
    /\ bundle' = stft(heap, signal, win, hop).bundle
    /\ heap' = stft(heap, signal, win, hop).heap
    /\ UNCHANGED <<signal, win, hop, scheme, heapPre, call, res, fftVars, extVars>>

\* the scheme is complete before the signal is analysed (app.py, process_audio)
AddBand ==
    /\ ~Analysed
    /\ Len(scheme.bands) < MaxBands
    /\ \E b \in BandChoices : scheme' = add_band(scheme, F(b[1]), F(b[2]), F(b[3]))
    /\ UNCHANGED <<signal, win, hop, heap, bundle, heapPre, call, res, fftVars, extVars>>

IstftCall(useMod, hasLen, outLen) ==
    /\ Analysed
    /\ ~call.made
    /\ res' = istft(heap, useMod, scheme, bundle, hasLen, outLen)
    /\ heap' = res'.heap
    /\ heapPre' = heap
    /\ call' = [made |-> TRUE, modifier |-> useMod, hasLen |-> hasLen, out_len |-> outLen]
    /\ UNCHANGED <<signal, win, hop, bundle, scheme, fftVars, extVars>>

\* synthesis without a modifier, out_len None or explicit
Istft ==
    \/ IstftCall(FALSE, FALSE, 0)
    \/ \E n \in 0..MaxOutLen : IstftCall(FALSE, TRUE, n)

Next == Stft \/ Istft

Spec == Init /\ [][Next]_vars

\* synthesis with the modifier built from the scheme (None only when the
\* caller added no band), out_len None or len(signal)
IstftEq ==
    \E useMod \in BOOLEAN :
        /\ useMod \/ scheme.bands = <<>>
        /\ \/ IstftCall(useMod, FALSE, 0)
           \/ IstftCall(useMod, TRUE, Len(signal))

NextEq == Stft \/ AddBand \/ IstftEq

SpecEq == Init /\ [][NextEq]_vars

----------------------------------------------------------------------------
(* A caller that builds an EQScheme and hands one frame to its modifier,
   as istft does with every frame *)

MaxModBands == 2

ModSizes == {1, 2, 4, 8}

\* (startHz, widthHz, gain) at sample rate 8, Nyquist 4: a band over the whole
\* spectrum, one overlapping it, one narrower than a bin, a negative gain, a
\* zero and a negative width, bands starting at and above Nyquist, a gain < 1
ModBandChoices ==
    { <<F(0), F(4), F(2)>>, <<F(0), F(3), F(3)>>, <<Norm(5, 2), Norm(1, 2), F(2)>>,
      <<F(0), F(1), F(-1)>>, <<F(2), F(0), F(2)>>, <<F(2), F(-1), F(2)>>,
      <<F(5), Norm(1, 2), F(2)>>, <<F(4), F(2), F(3)>>, <<F(1), F(2), Norm(1, 2)>> }

\* frames without a zero in re: an arbitrary one, and the spectrum of a real
\* signal (re even, im odd in k)
ModFrames(N) ==
    { [re |-> re, im |-> im] :
        re \in { [i \in 1..N |-> F(i)], [i \in 1..N |-> F(1 + Min(i - 1, N - (i - 1)))] },
        im \in { [i \in 1..N |-> F(3)],
                 [i \in 1..N |-> IF i = 1 \/ 2 * (i - 1) = N THEN Zero
                                 ELSE IF 2 * (i - 1) < N THEN F(i - 1)
                                 ELSE F(-(N - (i - 1)))] } }

InitMod ==
    /\ FftIdle
    /\ signal = <<>> /\ win = 1 /\ hop = 1
    /\ heap = <<>> /\ bundle = NoBundle
    /\ scheme \in {EQScheme(sr) : sr \in SampleRates}
    /\ heapPre = <<>> /\ call = NoCall /\ res = NoRes
    /\ Pow2Idle /\ ClampIdle /\ ConcIdle /\ LateIdle
    /\ mN \in ModSizes
    /\ \E fr \in ModFrames(mN) :
          /\ mre = fr.re /\ mim = fr.im
          /\ mreIn = fr.re /\ mimIn = fr.im
    /\ mArgs = <<>>
    /\ mApplied = FALSE

AddBandMod ==
    /\ ~mApplied
    /\ Len(scheme.bands) < MaxModBands
    /\ \E b \in ModBandChoices :
          /\ scheme' = add_band(scheme, b[1], b[2], b[3])
          /\ mArgs' = Append(mArgs, b)
    /\ UNCHANGED <<mre, mim, mreIn, mimIn, mN, mApplied>>
    /\ UNCHANGED <<signal, win, hop, heap, bundle, heapPre, call, res>>
    /\ UNCHANGED <<fftVars, pow2Vars, clampVars, concVars, lateVars>>

\* modifier(re, im, N): the buffers are changed in place
ApplyModifier ==
    /\ ~mApplied
    /\ mre' = modifier(scheme, mre, mim, mN).re
    /\ mim' = modifier(scheme, mre, mim, mN).im
    /\ mApplied' = TRUE
    /\ UNCHANGED <<mreIn, mimIn, mN, mArgs>>
    /\ UNCHANGED <<fftVars, pipeVars, pow2Vars, clampVars, concVars, lateVars>>

NextMod == AddBandMod \/ ApplyModifier

SpecMod == InitMod /\ [][NextMod]_vars

----------------------------------------------------------------------------
(* Two requests running stft -> modifier -> istft -> clamp_signal at the
   same time, each on its own signal and EQScheme; the arrays of both live
   in one process heap.  A step is one iteration of a frame loop, or the
   code between two loops. *)

Pipelines == {1, 2}

ConcSignals ==
    { <<F(2), F(-1), F(2), F(2), F(-1)>>, <<F(-1), F(-1), F(2), F(-1), F(2)>> }

ConcHops == {1, 2}

ConcWins == {4}

ConcSchemes ==
    { EQScheme(8), add_band(EQScheme(8), F(0), F(4), F(2)) }

NoLoop == [frames |-> <<>>, reals |-> <<>>, imags |-> <<>>]

NoAcc == [out |-> <<>>, norm |-> <<>>, err |-> "ok", writes |-> <<>>]

\* a request about to call stft(sig, win, hop)
NewPipe(sig, wn, hp, sch) ==
    [signal |-> sig, win |-> wn, hop |-> hp, scheme |-> sch,
     pc |-> "stft", loop |-> NoLoop, start |-> 0, bundle |-> NoBundle,
     acc |-> NoAcc, f |-> 0, err |-> "none", out |-> <<>>]

InitConc ==
    /\ FftIdle /\ PipeIdle
    /\ ModIdle /\ Pow2Idle /\ ClampIdle /\ LateIdle
    /\ pipes \in [Pipelines -> {NewPipe(sig, wn, hp, sch) :
                                   sig \in ConcSignals, wn \in ConcWins,
                                   hp \in ConcHops, sch \in ConcSchemes}]
    /\ procHeap = <<>>

ConcUnchanged == UNCHANGED <<fftVars, pipeVars, modVars, pow2Vars, clampVars, lateVars>>

WithHeap(h, t) == [heap |-> h, frames |-> t.frames, reals |-> t.reals, imags |-> t.imags]

WithoutHeap(t) == [frames |-> t.frames, reals |-> t.reals, imags |-> t.imags]

\* one iteration of the frame loop of stft
StftStep(p) ==
    /\ pipes[p].pc = "stft"
    /\ pipes[p].start + next_pow2(pipes[p].win) <= Len(pipes[p].signal)
    /\ procHeap' =
          AppendFrame(WithHeap(procHeap, pipes[p].loop), pipes[p].start,
                      fft(ArrMul(Slice(pipes[p].signal, pipes[p].start,
                                       pipes[p].start + next_pow2(pipes[p].win)),
                                 hann(next_pow2(pipes[p].win))),
                          Zeros(next_pow2(pipes[p].win)))).heap
    /\ pipes' = [pipes EXCEPT
          ![p].loop = WithoutHeap(
              AppendFrame(WithHeap(procHeap, pipes[p].loop), pipes[p].start,
                          fft(ArrMul(Slice(pipes[p].signal, pipes[p].start,
                                           pipes[p].start + next_pow2(pipes[p].win)),
                                     hann(next_pow2(pipes[p].win))),
                              Zeros(next_pow2(pipes[p].win))))),
          ![p].start = @ + pipes[p].hop]
    /\ ConcUnchanged

\* stft returns its bundle
StftEnd(p) ==
    /\ pipes[p].pc = "stft"
    /\ pipes[p].start + next_pow2(pipes[p].win) > Len(pipes[p].signal)
    /\ pipes' = [pipes EXCEPT
          ![p].bundle = StftReturn(WithHeap(procHeap, pipes[p].loop),
                                   next_pow2(pipes[p].win), pipes[p].hop).bundle,
          ![p].pc = "modifier"]
    /\ UNCHANGED procHeap
    /\ ConcUnchanged

\* modifier = make_modifier_from_scheme(scheme), then the start of
\* istft(modifier, S, out_len=len(sig)): out and norm are allocated
MakeModifier(p) ==
    /\ pipes[p].pc = "modifier"
    /\ pipes' = [pipes EXCEPT
          ![p].acc = [out |-> Zeros(Len(pipes[p].signal)),
                      norm |-> Zeros(Len(pipes[p].signal)),
                      err |-> "ok", writes |-> <<>>],
          ![p].pc = "istft"]
    /\ UNCHANGED procHeap
    /\ ConcUnchanged

AccWithHeap(h, a) ==
    [heap |-> h, out |-> a.out, norm |-> a.norm, err |-> a.err, writes |-> a.writes]

AccWithoutHeap(a) == [out |-> a.out, norm |-> a.norm, err |-> a.err, writes |-> a.writes]

\* one iteration of the frame loop of istft; its two copies are garbage
\* when the iteration ends
IstftStep(p) ==
    /\ pipes[p].pc = "istft"
    /\ pipes[p].f < Len(pipes[p].bundle.reals)
    /\ pipes[p].acc.err = "ok"
    /\ pipes' = [pipes EXCEPT
          ![p].acc = AccWithoutHeap(
              IstftFrame(AccWithHeap(procHeap, pipes[p].acc), pipes[p].f, pipes[p].bundle,
                         TRUE, pipes[p].scheme, hann(pipes[p].bundle.N),
                         Len(pipes[p].signal))),
          ![p].f = @ + 1]
    /\ procHeap' =
          SubSeq(IstftFrame(AccWithHeap(procHeap, pipes[p].acc), pipes[p].f, pipes[p].bundle,
                            TRUE, pipes[p].scheme, hann(pipes[p].bundle.N),
                            Len(pipes[p].signal)).heap,
                 1, Len(procHeap))
    /\ ConcUnchanged

\* istft normalises and returns, or has raised
IstftEnd(p) ==
    /\ pipes[p].pc = "istft"
    /\ pipes[p].f >= Len(pipes[p].bundle.reals) \/ pipes[p].acc.err # "ok"
    /\ pipes' = [pipes EXCEPT
          ![p].out = IstftReturn(procHeap, AccWithHeap(procHeap, pipes[p].acc)).out,
          ![p].err = pipes[p].acc.err,
          ![p].pc = IF pipes[p].acc.err = "ok" THEN "clamp" ELSE "done"]
    /\ UNCHANGED procHeap
    /\ ConcUnchanged

\* out = clamp_signal(out)
ClampStep(p) ==
    /\ pipes[p].pc = "clamp"
    /\ pipes' = [pipes EXCEPT ![p].out = clamp_signal(@), ![p].pc = "done"]
    /\ UNCHANGED procHeap
    /\ ConcUnchanged

NextConc ==
    \E p \in Pipelines :
        \/ StftStep(p)
        \/ StftEnd(p)
        \/ MakeModifier(p)
        \/ IstftStep(p)
        \/ IstftEnd(p)
        \/ ClampStep(p)

SpecConc == InitConc /\ [][NextConc]_vars

----------------------------------------------------------------------------
(* The analysing and synthesising caller with hop >= N: frames do not overlap *)

SparseLens == {5, 9}

SparseWins == {4}

SparseHops == {4, 5}

InitSparse ==
    /\ FftIdle
    /\ ExtIdle
    /\ signal \in UNION {[1..n -> {F(v) : v \in SigVals}] : n \in SparseLens}
    /\ win \in SparseWins
    /\ hop \in SparseHops
    /\ heap = <<>>
    /\ bundle = NoBundle
    /\ scheme \in {EQScheme(sr) : sr \in SampleRates}
    /\ heapPre = <<>>
    /\ call = NoCall
    /\ res = NoRes

NextSparse == Stft \/ Istft \/ IstftEq

SpecSparse == InitSparse /\ [][NextSparse]_vars

----------------------------------------------------------------------------
(* The frame loop of one stft call made by the /api/spectrogram handler, one
   iteration at a time; win and hop come from the request unchecked *)

MaxLoopIters == 7

LoopHops == (-MaxHop)..MaxHop

\* Python's s[a:b] for any integers a, b
PyIndex(k, n) == IF k < 0 THEN Max(k + n, 0) ELSE Min(k, n)

PySlice(s, a, b) == Slice(s, PyIndex(a, Len(s)), PyIndex(b, Len(s)))

\* signal[start:start+N] * w, numpy stretching a one-element slice
Windowed(sl, w) ==
    [i \in 1..Len(w) |-> RMul(IF Len(sl) = 1 THEN sl[1] ELSE sl[i], w[i])]

\* the shapes numpy accepts in re[:] = signal[start:start+N] * w
ShapesFit(sl, N) == Len(sl) = N \/ Len(sl) = 1

InitLoop ==
    /\ OtherIdle
    /\ proc = <<>> /\ fftRun = <<>> /\ demucs = <<>>
    /\ \E sig \in Signals : \E wn \in 1..MaxWin : \E hp \in LoopHops :
          stftRun = [signal |-> sig, hop |-> hp, N |-> next_pow2(wn), start |-> 0,
                     pc |-> "loop",
                     st |-> [heap |-> <<>>, frames |-> <<>>, reals |-> <<>>, imags |-> <<>>]]

LoopFrame == UNCHANGED <<proc, fftRun, demucs>> /\ OtherUnchanged

LoopSlice == PySlice(stftRun.signal, stftRun.start, stftRun.start + stftRun.N)

\* an iteration that appends its frame but leaves start where it was
LoopStep_Stuck ==
    /\ stftRun.pc = "loop"
    /\ stftRun.start + stftRun.N <= Len(stftRun.signal)
    /\ ShapesFit(LoopSlice, stftRun.N)
    /\ Len(stftRun.st.frames) < MaxLoopIters
    /\ stftRun' = [stftRun EXCEPT
          !.st = AppendFrame(stftRun.st, stftRun.start,
                             fft(Windowed(LoopSlice, hann(stftRun.N)), Zeros(stftRun.N)))]
    /\ LoopFrame

\* start + N <= length: one frame is windowed, transformed and appended
LoopStep ==
    /\ stftRun.pc = "loop"
    /\ stftRun.start + stftRun.N <= Len(stftRun.signal)
    /\ ShapesFit(LoopSlice, stftRun.N)
    /\ Len(stftRun.st.frames) < MaxLoopIters
    /\ stftRun' = [stftRun EXCEPT
          !.st = AppendFrame(stftRun.st, stftRun.start,
                             fft(Windowed(LoopSlice, hann(stftRun.N)), Zeros(stftRun.N))),
          !.start = @ + stftRun.hop]
    /\ LoopFrame

\* start + N <= length, but the slice does not have N elements (or one)
LoopRaise ==
    /\ stftRun.pc = "loop"
    /\ stftRun.start + stftRun.N <= Len(stftRun.signal)
    /\ ~ShapesFit(LoopSlice, stftRun.N)
    /\ stftRun' = [stftRun EXCEPT !.pc = "ValueError"]
    /\ LoopFrame

\* start + N > length: the bundle is returned
LoopReturn ==
    /\ stftRun.pc = "loop"
    /\ stftRun.start + stftRun.N > Len(stftRun.signal)
    /\ stftRun' = [stftRun EXCEPT !.pc = "returned"]
    /\ LoopFrame

NextLoop == LoopStep \/ LoopRaise \/ LoopReturn

\* the state in which another iteration can run: the guards of LoopStep
LoopRunnable ==
    /\ stftRun.pc = "loop"
    /\ stftRun.start + stftRun.N <= Len(stftRun.signal)
    /\ ShapesFit(LoopSlice, stftRun.N)
    /\ Len(stftRun.st.frames) < MaxLoopIters

(* stft is straight-line code on one thread: the interpreter runs whichever
   of the three steps is possible.  Weak fairness of the iteration is written
   out with its guard, WF_vars(LoopStep) being
   []<>~ENABLED <<LoopStep>>_vars \/ []<><<LoopStep>>_vars. *)
SpecLoop ==
    /\ InitLoop /\ [][NextLoop]_vars
    /\ WF_vars(LoopRaise) /\ WF_vars(LoopReturn)
    /\ ([]<>~LoopRunnable \/ []<><<LoopStep>>_vars)

----------------------------------------------------------------------------
(* Two requests to /api/demucs and /api/demucs_compare served at the same
   time by the threads of the development server (app.run).  The handlers
   share the files of UPLOAD_FOLDER and the directory OUTPUT_FOLDER; a step
   is one file-system operation of a handler or of its demucs subprocess.
   An upload is identified by the request that sent it; 0 is "no file". *)

DemucsRequests == {1, 2}

DemucsKinds == {"demucs", "compare"}

\* the other request
Other(r) == CHOOSE q \in DemucsRequests : q # r

\* the request is between saving its upload and leaving the handler
InFlight(q) == demucs.reqs[q].pc \notin {"save", "done", "failed"}

\* the demucs subprocess of the request is writing into OUTPUT_FOLDER, or
\* the handler is about to read what it wrote
UsingOutput(q) == demucs.reqs[q].pc \in {"writing", "read"}

\* input[k]: the upload held by demucs_input.wav / compare_input.wav;
\* outDir: OUTPUT_FOLDER exists (it is created when the module is loaded); out[k]: the upload whose stems are in
\* OUTPUT_FOLDER/htdemucs/demucs_input or .../compare_input;
\* overwrote, cleaned: the pairs <<r, q>> where r replaced the input file of
\* q, or removed OUTPUT_FOLDER under q, while q was in flight
InitDemucs ==
    /\ OtherIdle
    /\ proc = <<>> /\ fftRun = <<>> /\ stftRun = <<>>
    /\ \E kinds \in [DemucsRequests -> DemucsKinds] :
          demucs = [reqs      |-> [r \in DemucsRequests |->
                                     [kind |-> kinds[r], pc |-> "save", src |-> 0, stems |-> 0]],
                    input     |-> [k \in DemucsKinds |-> 0],
                    outDir    |-> TRUE,
                    out       |-> [k \in DemucsKinds |-> 0],
                    overwrote |-> {},
                    cleaned   |-> {}]

DemucsFrame == UNCHANGED <<proc, fftRun, stftRun>> /\ OtherUnchanged

\* audio_file.save(temp_input) / open(temp_input, 'wb').write(audio_data):
\* the path depends on the endpoint only
DemucsSave(r) ==
    /\ demucs.reqs[r].pc = "save"
    /\ demucs' = [demucs EXCEPT
          !.reqs[r].pc = "exists",
          !.input[demucs.reqs[r].kind] = r,
          !.overwrote = IF /\ InFlight(Other(r))
                           /\ demucs.reqs[Other(r)].kind = demucs.reqs[r].kind
                           /\ demucs.input[demucs.reqs[r].kind] = Other(r)
                        THEN @ \cup {<<r, Other(r)>>} ELSE @]
    /\ DemucsFrame

\* if os.path.exists(OUTPUT_FOLDER):
DemucsExists(r) ==
    /\ demucs.reqs[r].pc = "exists"
    /\ demucs' = [demucs EXCEPT
          !.reqs[r].pc = IF demucs.outDir THEN "rmtree" ELSE "makedirs"]
    /\ DemucsFrame

\* shutil.rmtree(OUTPUT_FOLDER): FileNotFoundError, caught by the handler's
\* except Exception, when the directory has gone since the test
DemucsRmtree(r) ==
    /\ demucs.reqs[r].pc = "rmtree"
    /\ demucs' = IF ~demucs.outDir
                 THEN [demucs EXCEPT !.reqs[r].pc = "failed"]
                 ELSE [demucs EXCEPT
                         !.reqs[r].pc = "makedirs",
                         !.outDir = FALSE,
                         !.out = [k \in DemucsKinds |-> 0],
                         !.cleaned = IF UsingOutput(Other(r))
                                     THEN @ \cup {<<r, Other(r)>>} ELSE @]
    /\ DemucsFrame

\* os.makedirs(OUTPUT_FOLDER, exist_ok=True)
DemucsMakedirs(r) ==
    /\ demucs.reqs[r].pc = "makedirs"
    /\ demucs' = [demucs EXCEPT !.reqs[r].pc = "run", !.outDir = TRUE]
    /\ DemucsFrame

\* subprocess.run(['demucs', ..., temp_input]) starts and loads its input
\* file; without the file demucs exits with an error, which /api/demucs
\* answers with 500 and /api/demucs_compare ignores
DemucsStart(r) ==
    /\ demucs.reqs[r].pc = "run"
    /\ demucs' = [demucs EXCEPT
          !.reqs[r].src = demucs.input[demucs.reqs[r].kind],
          !.reqs[r].pc = IF demucs.input[demucs.reqs[r].kind] # 0 THEN "writing"
                         ELSE IF demucs.reqs[r].kind = "demucs" THEN "failed"
                         ELSE "read"]
    /\ DemucsFrame

\* the subprocess writes the stems of the file it loaded under
\* OUTPUT_FOLDER/htdemucs/<input name>, creating the directories, and exits
DemucsFinish(r) ==
    /\ demucs.reqs[r].pc = "writing"
    /\ demucs' = [demucs EXCEPT
          !.reqs[r].pc = "read",
          !.outDir = TRUE,
          !.out[demucs.reqs[r].kind] = demucs.reqs[r].src]
    /\ DemucsFrame

\* the handler looks for model_dir and reads the stems in it; /api/demucs
\* answers 500 when the directory is missing, /api/demucs_compare reports
\* an empty list
DemucsRead(r) ==
    /\ demucs.reqs[r].pc = "read"
    /\ demucs' = [demucs EXCEPT
          !.reqs[r].stems = demucs.out[demucs.reqs[r].kind],
          !.reqs[r].pc = IF demucs.out[demucs.reqs[r].kind] = 0
                            /\ demucs.reqs[r].kind = "demucs"
                         THEN "failed" ELSE "cleanup"]
    /\ DemucsFrame

\* os.remove(temp_input), errors ignored; the response is returned (the
\* equalizer pass of /api/demucs_compare before it works on the bytes read
\* from the request, not on the files)
DemucsCleanup(r) ==
    /\ demucs.reqs[r].pc = "cleanup"
    /\ demucs' = [demucs EXCEPT
          !.reqs[r].pc = "done",
          !.input[demucs.reqs[r].kind] = 0]
    /\ DemucsFrame

NextDemucs ==
    \E r \in DemucsRequests :
        \/ DemucsSave(r)
        \/ DemucsExists(r)
        \/ DemucsRmtree(r)
        \/ DemucsMakedirs(r)
        \/ DemucsStart(r)
        \/ DemucsFinish(r)
        \/ DemucsRead(r)
        \/ DemucsCleanup(r)

SpecDemucs == InitDemucs /\ [][NextDemucs]_vars

----------------------------------------------------------------------------
(* One /api/process request, from the decoded mono signal to the list handed
   to the WAV encoder *)

\* decoded 16-bit samples s / 32768.0 lie in [-1, 1)
ProcVals == {F(-1), Norm(1, 2)}

ProcSignals == UNION {[1..n -> ProcVals] : n \in 0..MaxSigLen}

\* win and hop of the handler, scaled down from 1024 and 256
ProcWins == {4}

ProcHops == {1}

ProcBandChoices == {<<0, 4, 2>>, <<2, 1, 0>>, <<0, 4, 1>>}

InitProc ==
    /\ FftIdle
    /\ ModIdle /\ Pow2Idle /\ ClampIdle /\ ConcIdle
    /\ fftRun = <<>> /\ stftRun = <<>> /\ demucs = <<>>
    /\ signal \in ProcSignals
    /\ win \in ProcWins
    /\ hop \in ProcHops
    /\ heap = <<>> /\ bundle = NoBundle
    /\ scheme \in {EQScheme(sr) : sr \in SampleRates}
    /\ heapPre = <<>> /\ call = NoCall /\ res = NoRes
    /\ proc = [pc |-> "scheme", trace |-> <<>>, out |-> <<>>]

ProcUnchanged == UNCHANGED <<fftVars, modVars, pow2Vars, clampVars, concVars,
                             fftRun, stftRun, demucs>>

\* scheme.add_band(...) for each band of the request
ProcAddBand ==
    /\ proc.pc = "scheme"
    /\ Len(scheme.bands) < MaxBands
    /\ \E b \in ProcBandChoices : scheme' = add_band(scheme, F(b[1]), F(b[2]), F(b[3]))
    /\ UNCHANGED <<signal, win, hop, heap, bundle, heapPre, call, res, proc>>
    /\ ProcUnchanged

\* S = stft(sig, win, hop)
ProcStft ==
    /\ proc.pc = "scheme"
    /\ bundle' = stft(heap, signal, win, hop).bundle
    /\ heap' = stft(heap, signal, win, hop).heap
    /\ proc' = [proc EXCEPT !.pc = "modifier", !.trace = Append(@, "stft")]
    /\ UNCHANGED <<signal, win, hop, scheme, heapPre, call, res>>
    /\ ProcUnchanged

\* modifier = make_modifier_from_scheme(scheme)
ProcMakeModifier ==
    /\ proc.pc = "modifier"
    /\ proc' = [proc EXCEPT !.pc = "istft",
                             !.trace = Append(@, "make_modifier_from_scheme")]
    /\ UNCHANGED pipeVars
    /\ ProcUnchanged

\* out = istft(modifier, S, out_len=len(sig)); an exception ends the request
ProcIstft ==
    /\ proc.pc = "istft"
    /\ res' = istft(heap, TRUE, scheme, bundle, TRUE, Len(signal))
    /\ heap' = res'.heap
    /\ heapPre' = heap
    /\ call' = [made |-> TRUE, modifier |-> TRUE, hasLen |-> TRUE, out_len |-> Len(signal)]
    /\ proc' = [pc |-> IF res'.err = "ok" THEN "clamp" ELSE "failed",
                trace |-> Append(proc.trace, "istft"),
                out |-> res'.out]
    /\ UNCHANGED <<signal, win, hop, bundle, scheme>>
    /\ ProcUnchanged

\* out = clamp_signal(out); the result goes to the WAV encoder
ProcClamp ==
    /\ proc.pc = "clamp"
    /\ proc' = [pc |-> "encode",
                trace |-> Append(proc.trace, "clamp_signal"),
                out |-> clamp_signal(proc.out)]
    /\ UNCHANGED pipeVars
    /\ ProcUnchanged

NextProc == ProcAddBand \/ ProcStft \/ ProcMakeModifier \/ ProcIstft \/ ProcClamp

SpecProc == InitProc /\ [][NextProc]_vars

----------------------------------------------------------------------------
(* The bit-reversal loop of one fft call, one iteration at a time *)

MaxRevBits == 4

\* buffers of length n whose elements tell their original position
RevBuffers(n) ==
    { [re |-> re, im |-> im] :
        re \in { [i \in 1..n |-> F(i)], [i \in 1..n |-> F(n - i)] },
        im \in { [i \in 1..n |-> F(-i)], [i \in 1..n |-> F(2 * i + 1)] } }

InitRev ==
    /\ OtherIdle
    /\ proc = <<>> /\ stftRun = <<>> /\ demucs = <<>>
    /\ \E m \in 0..MaxRevBits : \E b \in RevBuffers(Pow2(m)) :
          fftRun = [re |-> b.re, im |-> b.im, reIn |-> b.re, imIn |-> b.im,
                    n |-> Pow2(m), bits |-> IntLog2(Pow2(m)),
                    pc |-> "reverse", i |-> 0, swaps |-> <<>>]

\* one iteration of `for i in range(n)`; a swap is logged when the buffers changed
RevStep ==
    /\ fftRun.pc = "reverse"
    /\ fftRun.i < fftRun.n
    /\ fftRun' = [fftRun EXCEPT
          !.re = SwapStep(Run(fftRun.re, fftRun.im, "ok"), fftRun.i, fftRun.bits).re,
          !.im = SwapStep(Run(fftRun.re, fftRun.im, "ok"), fftRun.i, fftRun.bits).im,
          !.swaps = IF SwapStep(Run(fftRun.re, fftRun.im, "ok"), fftRun.i, fftRun.bits)
                       = Run(fftRun.re, fftRun.im, "ok")
                    THEN @
                    ELSE Append(@, <<fftRun.i, bit_reverse(fftRun.i, fftRun.bits)>>),
          !.i = @ + 1]
    /\ UNCHANGED <<proc, stftRun, demucs>>
    /\ OtherUnchanged

\* the loop is over; the butterfly stages follow
RevEnd ==
    /\ fftRun.pc = "reverse"
    /\ fftRun.i >= fftRun.n
    /\ fftRun' = [fftRun EXCEPT !.pc = "butterfly"]
    /\ UNCHANGED <<proc, stftRun, demucs>>
    /\ OtherUnchanged

NextRev == RevStep \/ RevEnd

SpecRev == InitRev /\ [][NextRev]_vars

----------------------------------------------------------------------------
(* The butterfly loops of one fft call, one loop test at a time.  r.pc tells
   which loop test comes next: "stage" (while size <= n), "block" (while
   i0 < n) or "pair" (for j in range(half)). *)

FlySizes == {n \in 1..MaxFftLen : \E m \in 0..n : Pow2(m) = n}

\* size = 2, after the bit-reversal loop
FlyStart(re, im) ==
    [re |-> BitReversal(Run(re, im, "ok"), 0, Len(re), IntLog2(Len(re))).re,
     im |-> BitReversal(Run(re, im, "ok"), 0, Len(re), IntLog2(Len(re))).im,
     re0 |-> BitReversal(Run(re, im, "ok"), 0, Len(re), IntLog2(Len(re))).re,
     im0 |-> BitReversal(Run(re, im, "ok"), 0, Len(re), IntLog2(Len(re))).im,
     n |-> Len(re), pc |-> "stage", size |-> 2, i0 |-> 0, j |-> 0,
     wre |-> One, wim |-> Zero, stages |-> <<>>, pairs |-> <<>>]

\* size <= n: half, theta, wmul are set and i0 = 0
StageEnter(r) == [r EXCEPT !.pc = "block", !.i0 = 0, !.stages = Append(@, r.size)]

\* the twiddle is carried over from the block before
BlockEnter_Carry(r) == [r EXCEPT !.pc = "pair", !.j = 0]

\* i0 < n: wre, wim = 1.0, 0.0 and the loop over j starts
BlockEnter(r) == [r EXCEPT !.pc = "pair", !.j = 0, !.wre = One, !.wim = Zero]

\* j < half: one butterfly on (a, b) = (i0 + j, i0 + j + half), then the
\* twiddle is multiplied by wmul
PairStep(r) ==
    [r EXCEPT
       !.re = Butterfly(Run(r.re, r.im, "ok"), r.i0 + r.j,
                        r.i0 + r.j + r.size \div 2, r.wre, r.wim).re,
       !.im = Butterfly(Run(r.re, r.im, "ok"), r.i0 + r.j,
                        r.i0 + r.j + r.size \div 2, r.wre, r.wim).im,
       !.pairs = Append(@, [size |-> r.size, i0 |-> r.i0, j |-> r.j,
                            a |-> r.i0 + r.j, b |-> r.i0 + r.j + r.size \div 2,
                            wre |-> r.wre, wim |-> r.wim]),
       !.wre = RSub(RMul(r.wre, CosSin(r.size)[1]), RMul(r.wim, CosSin(r.size)[2])),
       !.wim = RAdd(RMul(r.wre, CosSin(r.size)[2]), RMul(r.wim, CosSin(r.size)[1])),
       !.j = @ + 1]

\* the loop over j is over: i0 += size
BlockLeave(r) == [r EXCEPT !.pc = "block", !.i0 = @ + r.size]

\* the loop over i0 is over: size <<= 1
StageLeave(r) == [r EXCEPT !.pc = "stage", !.size = 2 * @]

InitFly ==
    /\ OtherIdle
    /\ proc = <<>> /\ stftRun = <<>> /\ demucs = <<>>
    /\ \E n \in FlySizes : \E re, im \in FftBuffers(n) : fftRun = FlyStart(re, im)

FlyFrame == UNCHANGED <<proc, stftRun, demucs>> /\ OtherUnchanged

FlyStageEnter ==
    /\ fftRun.pc = "stage" /\ fftRun.size <= fftRun.n
    /\ fftRun' = StageEnter(fftRun)
    /\ FlyFrame

FlyReturn ==
    /\ fftRun.pc = "stage" /\ fftRun.size > fftRun.n
    /\ fftRun' = [fftRun EXCEPT !.pc = "done"]
    /\ FlyFrame

FlyBlockEnter ==
    /\ fftRun.pc = "block" /\ fftRun.i0 < fftRun.n
    /\ fftRun' = BlockEnter(fftRun)
    /\ FlyFrame

FlyStageLeave ==
    /\ fftRun.pc = "block" /\ fftRun.i0 >= fftRun.n
    /\ fftRun' = StageLeave(fftRun)
    /\ FlyFrame

FlyPairStep ==
    /\ fftRun.pc = "pair" /\ fftRun.j < fftRun.size \div 2
    /\ fftRun' = PairStep(fftRun)
    /\ FlyFrame

FlyBlockLeave ==
    /\ fftRun.pc = "pair" /\ fftRun.j >= fftRun.size \div 2
    /\ fftRun' = BlockLeave(fftRun)
    /\ FlyFrame

NextFly ==
    \/ FlyStageEnter \/ FlyReturn
    \/ FlyBlockEnter \/ FlyStageLeave
    \/ FlyPairStep \/ FlyBlockLeave

SpecFly == InitFly /\ [][NextFly]_vars

----------------------------------------------------------------------------
(* A caller of clamp_signal that clamps a list and clamps the result again *)

MaxClampLen == 3

MaxClampCalls == 2

\* samples below, at, inside, and above the limits
ClampVals == {F(-2), F(-1), Norm(-1, 2), Zero, Norm(1, 2), F(1), F(2)}

ClampInputs == UNION {[1..n -> ClampVals] : n \in 0..MaxClampLen}

InitClamp ==
    /\ FftIdle /\ PipeIdle
    /\ ModIdle /\ Pow2Idle /\ ConcIdle /\ LateIdle
    /\ clampIn \in ClampInputs
    /\ clampOut = <<>>
    /\ clampCalls = 0

CallClamp ==
    /\ clampCalls < MaxClampCalls
    /\ clampOut' = clamp_signal(IF clampCalls = 0 THEN clampIn ELSE clampOut)
    /\ clampCalls' = clampCalls + 1
    /\ UNCHANGED <<clampIn, fftVars, pipeVars, modVars, pow2Vars, concVars, lateVars>>

NextClamp == CallClamp

SpecClamp == InitClamp /\ [][NextClamp]_vars

----------------------------------------------------------------------------
(* A caller of next_pow2 *)

MaxPow2Arg == 64

\* every size up to the bound, and the sizes around the window process_audio uses
Pow2Args == 0..MaxPow2Arg \cup {1023, 1024, 1025}

InitPow2 ==
    /\ FftIdle /\ PipeIdle
    /\ ModIdle /\ ClampIdle /\ ConcIdle /\ LateIdle
    /\ p2n \in Pow2Args
    /\ p2res = 0

CallNextPow2 ==
    /\ p2res = 0
    /\ p2res' = next_pow2(p2n)
    /\ UNCHANGED <<p2n, fftVars, pipeVars, modVars, clampVars, concVars, lateVars>>

NextPow2 == CallNextPow2

SpecPow2 == InitPow2 /\ [][NextPow2]_vars

----------------------------------------------------------------------------
(* Properties of fft / ifft, checked under SpecFft *)

IsPow2(n) == \E k \in 0..n : Pow2(k) = n

BadFftLength == ~IsPow2(Len(realPre)) \/ Len(realPre) # Len(imagPre)

\* C1: fft on buffers whose length is not a power of two, or whose lengths
\* differ, ends in an error and leaves both buffers exactly as they were.
C1_AtomicFail ==
    (fftOps = <<"fft">> /\ BadFftLength)
        => (fftErr \notin {"none", "ok"} /\ real = realPre /\ imag = imagPre)

\* C2: for power-of-two buffers of equal length, fft followed by ifft ends
\* without error and restores both buffers to their original contents.
C2_RoundTrip ==
    (fftOps = <<"fft", "ifft">> /\ IsPow2(Len(realIn)) /\ Len(realIn) = Len(imagIn))
        => (fftErr = "ok" /\ real = realIn /\ imag = imagIn)

\* a length-4 round trip whose forward transform changed the buffers
C2_Witness ==
    /\ fftOps = <<"fft", "ifft">>
    /\ Len(realIn) = 4 /\ Len(imagIn) = 4
    /\ realPre # realIn /\ imagPre # imagIn
    /\ realIn[2] # realIn[3]
    /\ fftErr = "ok" /\ real = realIn /\ imag = imagIn

----------------------------------------------------------------------------
(* Properties of stft / istft, checked under Spec *)

FrameCount == Len(bundle.reals)

LastStart == bundle.frames[FrameCount]

\* frame f (0-based) covers output index i (0-based)
CoveredBy(i, f) == f * bundle.hop <= i /\ i < f * bundle.hop + bundle.N

Covered(i) == \E f \in 0..(FrameCount - 1) : CoveredBy(i, f)

\* sum over the frames 0..f covering index i of the squared window value there
RECURSIVE WeightSum(_, _)
WeightSum(i, f) ==
    IF f < 0 THEN Zero
    ELSE RAdd(WeightSum(i, f - 1),
              IF CoveredBy(i, f)
              THEN RMul(hann(bundle.N)[i - f * bundle.hop + 1],
                        hann(bundle.N)[i - f * bundle.hop + 1])
              ELSE Zero)

Weight(i) == WeightSum(i, FrameCount - 1)

\* C3: stft emits one frame for each start 0, hop, 2*hop, ... with
\* start + N <= len(signal), in increasing order: floor((L-N)/hop)+1 frames
\* when L >= N and none when L < N; N is the next power of two of win and no
\* frame extends past the end of the signal.
C3_FrameStarts ==
    Analysed =>
        LET L   == Len(signal)
            N   == bundle.N
            cnt == IF L >= N THEN (L - N) \div hop + 1 ELSE 0
        IN  /\ IsPow2(N) /\ N >= win /\ (N > 1 => N \div 2 < win)
            /\ bundle.frames = [f \in 1..cnt |-> (f - 1) * hop]
            /\ Len(bundle.reals) = cnt /\ Len(bundle.imags) = cnt
            /\ \A f \in 1..cnt :
                  /\ bundle.frames[f] + N <= L
                  /\ Len(heap[bundle.reals[f]]) = N
                  /\ Len(heap[bundle.imags[f]]) = N

\* two frames, and a trailing partial window that produced none
C3_Witness ==
    /\ Analysed
    /\ FrameCount >= 2
    /\ LastStart + bundle.N < Len(signal)
    /\ LastStart + bundle.hop < Len(signal)

\* C5: with an explicit out_len, istft ends without error, returns out_len
\* samples and adds frame f only into [f*hop, min(f*hop+N, out_len)), nothing
\* at all for a frame starting at or beyond out_len.
C5_Clipped ==
    (call.made /\ call.hasLen) =>
        /\ res.err = "ok"
        /\ Len(res.out) = call.out_len
        /\ Len(res.writes) = FrameCount
        /\ \A k \in 1..Len(res.writes) :
              LET s == (k - 1) * bundle.hop IN
              IF s >= call.out_len THEN res.writes[k].hi = res.writes[k].lo
              ELSE /\ res.writes[k].lo = s
                   /\ res.writes[k].hi = Min(s + bundle.N, call.out_len)

\* C6: without out_len, on a bundle with at least one frame, the output
\* length is the last frame's start plus N.
C6_DefaultLength ==
    (call.made /\ ~call.hasLen /\ FrameCount >= 1) =>
        (res.err = "ok" /\ Len(res.out) = LastStart + bundle.N)

\* C7: the result is the accumulated sample divided by the accumulated
\* squared-window weight exactly where that weight exceeds 1e-12, and the
\* accumulated sample itself elsewhere; an index no frame covers is 0.
C7_Normalised ==
    (call.made /\ res.err = "ok") =>
        \A i \in 1..Len(res.out) :
            /\ res.norm[i] = Weight(i - 1)
            /\ res.out[i] = IF GtThreshold(Weight(i - 1))
                             THEN RDiv(res.acc[i], Weight(i - 1))
                             ELSE res.acc[i]
            /\ ~Covered(i - 1) => res.out[i] = Zero

\* a result with an index changed by the division, a covered index of
\* weight 0 and an index no frame covers
C7_Witness ==
    /\ call.made /\ res.err = "ok"
    /\ \E i \in 1..Len(res.out) :
          /\ GtThreshold(res.norm[i])
          /\ res.out[i] # res.acc[i]
          /\ res.out[i] = RDiv(res.acc[i], res.norm[i])
    /\ \E i \in 1..Len(res.out) : Covered(i - 1) /\ res.norm[i] = Zero
    /\ \E i \in 1..Len(res.out) : ~Covered(i - 1) /\ res.out[i] = Zero

RoundTripCall == call.made /\ ~call.modifier /\ call.hasLen /\ call.out_len = Len(signal)

\* C8: istft(None, stft(x), out_len=len(x)) ends without error with len(x)
\* samples; every index at or beyond last frame start + N is 0, and so is
\* the whole output when there is no frame.
C8_TailZero ==
    RoundTripCall =>
        /\ res.err = "ok"
        /\ Len(res.out) = Len(signal)
        /\ \A i \in 1..Len(res.out) :
              (FrameCount = 0 \/ i - 1 >= LastStart + bundle.N) => res.out[i] = Zero

\* a round trip with a non-zero sample and a non-empty tail
C8_Witness ==
    /\ RoundTripCall /\ res.err = "ok"
    /\ FrameCount >= 1
    /\ LastStart + bundle.N < Len(signal)
    /\ Len(res.out) = Len(signal)
    /\ \E i \in 1..Len(res.out) : res.out[i] # Zero /\ ~IsNaN(res.out[i])
    /\ \A i \in 1..Len(res.out) : i - 1 >= LastStart + bundle.N => res.out[i] = Zero

----------------------------------------------------------------------------
(* Properties of istft with the EQ modifier, checked under SpecEq *)

\* C4: istft leaves every array of the bundle as it was before the call.
C4_BundleUnchanged ==
    call.made =>
        /\ Len(heap) = Len(heapPre)
        /\ \A f \in 1..FrameCount :
              /\ heap[bundle.reals[f]] = heapPre[bundle.reals[f]]
              /\ heap[bundle.imags[f]] = heapPre[bundle.imags[f]]

\* a call whose modifier zeroes bins of a frame, the bundle still intact
C4_Witness ==
    /\ call.made /\ call.modifier /\ res.err = "ok"
    /\ \E b \in 1..Len(scheme.bands) : scheme.bands[b].gain = Zero
    /\ \E f \in 1..FrameCount :
          /\ modifier(scheme, heapPre[bundle.reals[f]], heapPre[bundle.imags[f]],
                      bundle.N).re # heapPre[bundle.reals[f]]
          /\ heap[bundle.reals[f]] = heapPre[bundle.reals[f]]
          /\ heap[bundle.imags[f]] = heapPre[bundle.imags[f]]

\* the scheme is one band of gain 1.0 covering the bins [0, N/2)
IdentityBand ==
    /\ Len(scheme.bands) = 1
    /\ scheme.bands[1].gain = One
    /\ RGt(scheme.bands[1].widthHz, Zero)
    /\ start_bin(scheme.bands[1], scheme.sample_rate, bundle.N) = 0
    /\ end_bin(scheme.bands[1], scheme.sample_rate, bundle.N) = bundle.N \div 2

IdentityRoundTrip ==
    /\ call.made /\ call.modifier /\ IdentityBand
    /\ bundle.N % bundle.hop = 0
    /\ call.hasLen /\ call.out_len = Len(signal)

\* C9 as claimed (for N > 2 and a signal that ends where its last frame
\* ends): the identity round trip returns the signal, sample for sample.
C9_Original ==
    (IdentityRoundTrip /\ bundle.N > 2 /\ FrameCount >= 1
        /\ LastStart + bundle.N = Len(signal))
        => (res.err = "ok" /\ res.out = signal)

\* C9, amended: the identity round trip returns len(x) samples; the sample
\* equals x[i] at every index whose accumulated squared-window weight
\* exceeds 1e-12, and is 0 at every other index (for N >= 2).
C9_Reconstruction ==
    IdentityRoundTrip =>
        /\ res.err = "ok"
        /\ Len(res.out) = Len(signal)
        /\ \A i \in 1..Len(res.out) :
              IF GtThreshold(Weight(i - 1)) THEN res.out[i] = signal[i]
              ELSE bundle.N >= 2 => res.out[i] = Zero

\* an identity round trip over two overlapping frames that reproduces the
\* weighted samples and loses others
C9_Witness ==
    /\ IdentityRoundTrip /\ res.err = "ok"
    /\ bundle.N = 4 /\ FrameCount >= 2
    /\ \E i \in 1..Len(res.out) : GtThreshold(res.norm[i]) /\ res.out[i] = signal[i]
    /\ \E i \in 1..Len(res.out) : res.out[i] = Zero /\ signal[i] # Zero

AllGainsZero == \A b \in 1..Len(scheme.bands) : scheme.bands[b].gain = Zero

AllZero(s) == \A i \in 1..Len(s) : s[i] = Zero

\* C10 as claimed (for a non-empty scheme and N >= 2): when every band has
\* gain 0 the output of istft with the modifier is all zeros.
C10_Original ==
    (call.made /\ call.modifier /\ Len(scheme.bands) >= 1 /\ AllGainsZero
        /\ bundle.N >= 2)
        => (res.err = "ok" /\ AllZero(res.out))

\* the bands of positive width cover every bin in [0, N/2)
CoversLowBins ==
    \A k \in 0..(bundle.N \div 2 - 1) :
        \E b \in 1..Len(scheme.bands) :
            /\ RGt(scheme.bands[b].widthHz, Zero)
            /\ start_bin(scheme.bands[b], scheme.sample_rate, bundle.N) <= k
            /\ k < end_bin(scheme.bands[b], scheme.sample_rate, bundle.N)

\* the Nyquist bin N/2 of every frame of the bundle is 0
NyquistZero ==
    \A f \in 1..FrameCount :
        /\ heap[bundle.reals[f]][bundle.N \div 2 + 1] = Zero
        /\ heap[bundle.imags[f]][bundle.N \div 2 + 1] = Zero

\* C10, amended: when every band has gain 0, the bands cover every bin in
\* [0, N/2) and every frame's Nyquist bin (which no band scales) is 0, the
\* output of istft with the modifier is all zeros.
C10_ZeroOutput ==
    (call.made /\ call.modifier /\ AllGainsZero /\ CoversLowBins /\ NyquistZero)
        => (res.err = "ok" /\ AllZero(res.out))

\* such a call on a frame with non-zero bins
C10_Witness ==
    /\ call.made /\ call.modifier /\ AllGainsZero /\ CoversLowBins /\ NyquistZero
    /\ bundle.N = 4 /\ FrameCount >= 1
    /\ \E f \in 1..FrameCount : ~AllZero(heap[bundle.reals[f]])
    /\ res.err = "ok" /\ Len(res.out) > 0 /\ AllZero(res.out)

----------------------------------------------------------------------------
(* Properties of the modifier, checked under SpecMod *)

\* band b scales bin k: k, or its mirror N-k, lies in [start_bin, end_bin)
\* of a band the loop does not skip
Touches(b, sr, N, k) ==
    /\ RGt(b.widthHz, Zero)
    /\ \/ start_bin(b, sr, N) <= k /\ k < end_bin(b, sr, N)
       \/ start_bin(b, sr, N) <= N - k /\ N - k < end_bin(b, sr, N)

Touching(sch, N, k) ==
    {i \in 1..Len(sch.bands) : Touches(sch.bands[i], sch.sample_rate, N, k)}

\* the product of max(gain, 0) over the bands i..Len that touch bin k
RECURSIVE GainProduct(_, _, _, _)
GainProduct(sch, N, k, i) ==
    IF i > Len(sch.bands) THEN One
    ELSE IF i \in Touching(sch, N, k)
         THEN RMul(IF RLt(sch.bands[i].gain, Zero) THEN Zero ELSE sch.bands[i].gain,
                   GainProduct(sch, N, k, i + 1))
         ELSE GainProduct(sch, N, k, i + 1)

ScaledBy(k, c) ==
    /\ mre[k + 1] = RMul(mreIn[k + 1], c)
    /\ mim[k + 1] = RMul(mimIn[k + 1], c)

\* C11: after the modifier has run, every bin k holds its input multiplied
\* by the product of max(gain, 0) over all bands whose bin range contains k
\* or its mirror N-k; a bin no band covers is unchanged
C11_GainProduct ==
    mApplied =>
        /\ Len(mre) = mN /\ Len(mim) = mN
        /\ \A k \in 0..(mN - 1) : ScaledBy(k, GainProduct(scheme, mN, k, 1))

\* two bands with different gains overlap on one bin and leave another alone
C11_Witness ==
    /\ mApplied
    /\ \E k \in 0..(mN - 1) :
          /\ Cardinality(Touching(scheme, mN, k)) >= 2
          /\ \E i, j \in Touching(scheme, mN, k) :
                scheme.bands[i].gain # scheme.bands[j].gain
          /\ mre[k + 1] # mreIn[k + 1]
    /\ \E k \in 0..(mN - 1) :
          Touching(scheme, mN, k) = {} /\ mre[k + 1] = mreIn[k + 1]

Permuted(sch, p) == [sch EXCEPT !.bands = [i \in 1..Len(sch.bands) |-> sch.bands[p[i]]]]

\* C12: a scheme with the same sample rate and the same bands in any other
\* order scales the same frame to the same result, bin by bin
C12_OrderFree ==
    mApplied =>
        \A p \in Permutations(1..Len(scheme.bands)) :
            modifier(Permuted(scheme, p), mreIn, mimIn, mN) = [re |-> mre, im |-> mim]

\* two different bands with different gains scale a common bin
C12_Witness ==
    /\ mApplied
    /\ \E k \in 0..(mN - 1) : \E i, j \in Touching(scheme, mN, k) :
          /\ scheme.bands[i] # scheme.bands[j]
          /\ scheme.bands[i].gain # scheme.bands[j].gain
          /\ ~RLt(scheme.bands[i].gain, Zero) /\ ~RLt(scheme.bands[j].gain, Zero)
          /\ mre[k + 1] # mreIn[k + 1]

\* re[N-k] = re[k] and im[N-k] = -im[k] for 0 < k < N
ConjugateSymmetric(re, im, N) ==
    \A k \in 1..(N - 1) :
        re[N - k + 1] = re[k + 1] /\ im[N - k + 1] = RNeg(im[k + 1])

\* bins j and k went through the same factor, in re and in im (the frames
\* hold no zero in re, so the factor is mre[k] / mreIn[k])
SameFactor(j, k) ==
    /\ RMul(mre[j + 1], mreIn[k + 1]) = RMul(mre[k + 1], mreIn[j + 1])
    /\ mim[j + 1] = RMul(mimIn[j + 1], RDiv(mre[j + 1], mreIn[j + 1]))
    /\ mim[k + 1] = RMul(mimIn[k + 1], RDiv(mre[k + 1], mreIn[k + 1]))

\* C13: every bin 0 < k < N/2 and its mirror N-k are multiplied by the same
\* factor, in re and im alike, and a conjugate-symmetric frame stays
\* conjugate-symmetric
C13_MirrorSymmetry ==
    mApplied =>
        /\ \A k \in 1..(mN \div 2 - 1) : SameFactor(k, mN - k)
        /\ SameFactor(0, 0)
        /\ ConjugateSymmetric(mreIn, mimIn, mN) => ConjugateSymmetric(mre, mim, mN)

\* a conjugate-symmetric frame with a bin 0 < k < N/2 that a band changed
C13_Witness ==
    /\ mApplied
    /\ ConjugateSymmetric(mreIn, mimIn, mN)
    /\ \E k \in 1..(mN \div 2 - 1) :
          /\ mre[k + 1] # mreIn[k + 1] /\ mim[k + 1] # mimIn[k + 1]
          /\ mre[mN - k + 1] # mreIn[mN - k + 1]
    /\ mre[1] = mreIn[1]

PositiveWidth(sch) == {i \in 1..Len(sch.bands) : RGt(sch.bands[i].widthHz, Zero)}

\* C14: in a frame with a Nyquist bin (N >= 2) every band of positive width
\* scales at least one bin, whatever its startHz: its bin range is not
\* empty, and a scheme of one such band with a gain other than 1 changes
\* the frame
C14_EveryBandScales ==
    mApplied /\ mN >= 2 =>
        \A i \in PositiveWidth(scheme) :
            /\ \E k \in 0..(mN - 1) : i \in Touching(scheme, mN, k)
            /\ Len(scheme.bands) = 1 /\ scheme.bands[i].gain # One => mre # mreIn

ChangedBins == {k \in 0..(mN - 1) : mre[k + 1] # mreIn[k + 1] \/ mim[k + 1] # mimIn[k + 1]}

\* bin k of [0, N/2) together with its mirror when k # 0
BinAndMirror(k, N) == IF k = 0 THEN {0} ELSE {k, N - k}

NarrowBands(sch, N) ==
    {i \in PositiveWidth(sch) : RLt(sch.bands[i].widthHz, Norm(sch.sample_rate, N))}

\* C15: in a frame with a Nyquist bin (N >= 2), a band with widthHz <= 0
\* leaves every bin unchanged whatever its gain, and a band with
\* 0 < widthHz < sampleRate/N scales exactly one bin k of [0, N/2), plus the
\* mirror N-k when k # 0, and no other
C15_NarrowBand ==
    mApplied /\ mN >= 2 =>
        /\ PositiveWidth(scheme) = {} => mre = mreIn /\ mim = mimIn
        /\ \A i \in NarrowBands(scheme, mN) :
              /\ \E k0 \in 0..(mN \div 2 - 1) :
                    {k \in 0..(mN - 1) : i \in Touching(scheme, mN, k)} = BinAndMirror(k0, mN)
              /\ Len(scheme.bands) = 1 /\ scheme.bands[i].gain # One =>
                    \E k0 \in 0..(mN \div 2 - 1) : ChangedBins = BinAndMirror(k0, mN)

\* the part of C15 about widthHz <= 0 alone
ZeroWidthNoOp ==
    mApplied /\ PositiveWidth(scheme) = {} => mre = mreIn /\ mim = mimIn

\* the part of C15 about narrow bands, for bands that start below Nyquist
NarrowBelowNyquist ==
    mApplied /\ mN >= 2 =>
        \A i \in NarrowBands(scheme, mN) :
            RLt(scheme.bands[i].startHz, Norm(scheme.sample_rate, 2)) =>
                \E k0 \in 0..(mN \div 2 - 1) :
                    {k \in 0..(mN - 1) : i \in Touching(scheme, mN, k)} = BinAndMirror(k0, mN)

\* the scheme with every negative gain replaced by 0
NegativeAsZero(sch) ==
    [sch EXCEPT !.bands = [i \in 1..Len(sch.bands) |->
        IF RLt(sch.bands[i].gain, Zero) THEN [sch.bands[i] EXCEPT !.gain = Zero]
        ELSE sch.bands[i]]]

\* C16: add_band stores every band as given, a negative gain included, and
\* the modifier treats a negative gain exactly as gain 0
C16_NegativeGain ==
    /\ Len(scheme.bands) = Len(mArgs)
    /\ \A i \in 1..Len(mArgs) :
          scheme.bands[i] = [startHz |-> mArgs[i][1], widthHz |-> mArgs[i][2],
                             gain |-> mArgs[i][3]]
    /\ mApplied =>
          modifier(NegativeAsZero(scheme), mreIn, mimIn, mN) = [re |-> mre, im |-> mim]

\* a band stored with its negative gain has zeroed a bin
C16_Witness ==
    /\ mApplied
    /\ \E i \in 1..Len(scheme.bands) :
          /\ RLt(mArgs[i][3], Zero)
          /\ scheme.bands[i].gain = mArgs[i][3]
          /\ \E k \in 0..(mN - 1) :
                /\ i \in Touching(scheme, mN, k)
                /\ mreIn[k + 1] # Zero /\ mre[k + 1] = Zero

----------------------------------------------------------------------------
(* Properties of hann, checked under Spec *)

HasNaN(a) == \E j \in 1..Len(a) : IsNaN(a[j])

\* C17: the window of length N <= 1 holds no NaN, and the frames of
\* stft(signal, win = 1, hop) hold no NaN
C17_NoNaN ==
    Analysed /\ bundle.N <= 1 =>
        /\ ~HasNaN(hann(bundle.N))
        /\ \A f \in 1..Len(bundle.reals) :
              ~HasNaN(heap[bundle.reals[f]]) /\ ~HasNaN(heap[bundle.imags[f]])

----------------------------------------------------------------------------
(* Properties of next_pow2, checked under SpecPow2 *)

RECURSIVE PowerOfTwo(_)
PowerOfTwo(q) == q = 1 \/ (q > 1 /\ q % 2 = 0 /\ PowerOfTwo(q \div 2))

\* C18: for n >= 1 next_pow2(n) returns the smallest power of two p >= n;
\* it maps 1 to 1, 1023 and 1024 to 1024, and 1025 to 2048
C18_SmallestPow2 ==
    p2res # 0 /\ p2n >= 1 =>
        /\ PowerOfTwo(p2res)
        /\ p2res >= p2n
        /\ \A q \in p2n..(p2res - 1) : ~PowerOfTwo(q)
        /\ p2n = 1 => p2res = 1
        /\ p2n = 1023 => p2res = 1024
        /\ p2n = 1024 => p2res = 1024
        /\ p2n = 1025 => p2res = 2048

\* the call has returned for an argument that is a power of two already
\* and for one just above a power of two
C18_Witness ==
    /\ p2res # 0
    /\ p2n \in {1024, 1025}

----------------------------------------------------------------------------
(* Properties of clamp_signal, checked under SpecClamp *)

MinOf(a, b) == IF RLt(b, a) THEN b ELSE a

MaxOf(a, b) == IF RGt(b, a) THEN b ELSE a

InUnitRange(x) == ~RLt(x, F(-1)) /\ ~RGt(x, F(1))

\* C19: clamp_signal returns a list of the same length whose element i is
\* min(1, max(-1, x[i])): every output lies in [-1, 1], inputs already in
\* range are unchanged, clamping the result again changes nothing, and
\* [-2.0, 0.5, 2.0] becomes [-1.0, 0.5, 1.0]
C19_Clamped ==
    clampCalls >= 1 =>
        /\ Len(clampOut) = Len(clampIn)
        /\ \A i \in 1..Len(clampIn) :
              /\ clampOut[i] = MinOf(F(1), MaxOf(F(-1), clampIn[i]))
              /\ InUnitRange(clampOut[i])
              /\ InUnitRange(clampIn[i]) => clampOut[i] = clampIn[i]
        /\ clampIn = <<F(-2), Norm(1, 2), F(2)>> => clampOut = <<F(-1), Norm(1, 2), F(1)>>

\* the list of the example has been clamped and its result clamped again
C19_Witness ==
    /\ clampCalls = 2
    /\ clampIn = <<F(-2), Norm(1, 2), F(2)>>
    /\ clampOut # clampIn

----------------------------------------------------------------------------
(* Properties of concurrent requests, checked under SpecConc *)

\* the pipeline of one request run alone, from an empty heap
AloneSynth(q) ==
    istft(stft(<<>>, q.signal, q.win, q.hop).heap, TRUE, q.scheme,
          stft(<<>>, q.signal, q.win, q.hop).bundle, TRUE, Len(q.signal))

\* C20: each of two pipelines with its own signal, bundle and EQScheme,
\* whatever the interleaving of their steps, ends with the output it
\* produces when run alone
C20_Isolation ==
    \A p \in Pipelines :
        pipes # <<>> /\ pipes[p].pc = "done" =>
            /\ pipes[p].err = AloneSynth(pipes[p]).err
            /\ pipes[p].err = "ok" => pipes[p].out = clamp_signal(AloneSynth(pipes[p]).out)

\* both pipelines are done, they had different signals and schemes, and
\* the frames of each were allocated between the frames of the other
C20_Witness ==
    /\ pipes # <<>>
    /\ \A p \in Pipelines : pipes[p].pc = "done" /\ pipes[p].err = "ok"
    /\ pipes[1].signal # pipes[2].signal
    /\ pipes[1].scheme # pipes[2].scheme
    /\ pipes[1].out # pipes[2].out
    /\ \A p \in Pipelines :
          /\ Len(pipes[p].bundle.reals) >= 2
          /\ pipes[p].bundle.reals[2] # pipes[p].bundle.reals[1] + 2

----------------------------------------------------------------------------
(* Properties of a /api/process request, checked under SpecProc *)

EngineOrder == <<"stft", "make_modifier_from_scheme", "istft", "clamp_signal">>

\* C21: the engine steps of a request run in the order stft,
\* make_modifier_from_scheme, istft, clamp_signal, and the list handed to
\* the WAV encoder has as many samples as the decoded mono input, each of
\* them in [-1, 1]
C21_Pipeline ==
    /\ Len(proc.trace) <= Len(EngineOrder)
    /\ proc.trace = SubSeq(EngineOrder, 1, Len(proc.trace))
    /\ proc.pc = "encode" =>
          /\ proc.trace = EngineOrder
          /\ Len(proc.out) = Len(signal)
          /\ \A i \in 1..Len(proc.out) : InUnitRange(proc.out[i])

\* a signal of two frames, equalised by a band, reached the encoder after
\* clamp_signal had to cut a sample
C21_Witness ==
    /\ proc.pc = "encode"
    /\ Len(bundle.reals) >= 2
    /\ scheme.bands # <<>>
    /\ proc.out # res.out

----------------------------------------------------------------------------
(* Properties of the bit-reversal loop, checked under SpecRev *)

Rev(i) == bit_reverse(i, fftRun.bits)

SwapsOf(i, j) == {k \in 1..Len(fftRun.swaps) : fftRun.swaps[k] \in {<<i, j>>, <<j, i>>}}

\* C22: for N = 2^m the loop leaves position i holding the element that
\* was at bit_reverse(i, m), in the real and the imaginary buffer alike;
\* each pair {i, bit_reverse(i)} of different positions is swapped exactly
\* once, fixed points are never swapped, and bit_reverse is an involution
\* on [0, N)
C22_BitReversal ==
    /\ \A i \in 0..(fftRun.n - 1) :
          /\ Rev(i) \in 0..(fftRun.n - 1)
          /\ Rev(Rev(i)) = i
    /\ \A k \in 1..Len(fftRun.swaps) :
          /\ fftRun.swaps[k][1] # fftRun.swaps[k][2]
          /\ fftRun.swaps[k][2] = Rev(fftRun.swaps[k][1])
    /\ fftRun.pc = "butterfly" =>
          \A i \in 0..(fftRun.n - 1) :
              /\ fftRun.re[i + 1] = fftRun.reIn[Rev(i) + 1]
              /\ fftRun.im[i + 1] = fftRun.imIn[Rev(i) + 1]
              /\ Cardinality(SwapsOf(i, Rev(i))) = IF Rev(i) = i THEN 0 ELSE 1

\* the loop has ended on 8 or more elements, of which some moved and some stayed
C22_Witness ==
    /\ fftRun.pc = "butterfly"
    /\ fftRun.n >= 8
    /\ \E i \in 1..(fftRun.n - 1) : Rev(i) = i
    /\ \E i \in 1..(fftRun.n - 1) : Rev(i) # i /\ fftRun.re[i + 1] # fftRun.reIn[i + 1]

----------------------------------------------------------------------------
(* Properties of the butterfly loops, checked under SpecFly *)

PairsOf(sz, x) ==
    {k \in 1..Len(fftRun.pairs) :
        fftRun.pairs[k].size = sz /\ x \in {fftRun.pairs[k].a, fftRun.pairs[k].b}}

\* C23: for N = 2^m the butterfly loop runs exactly m stages with block
\* sizes 2, 4, ..., N and then ends; in each stage every index of [0, N)
\* takes part in exactly one butterfly pair (a, a + size/2), both indices
\* inside [0, N), and the twiddle is (1, 0) at the start of every block
C23_Stages ==
    /\ \A k \in 1..Len(fftRun.stages) :
          fftRun.stages[k] = Pow2(k) /\ fftRun.stages[k] <= fftRun.n
    /\ \A k \in 1..Len(fftRun.pairs) :
          /\ fftRun.pairs[k].b = fftRun.pairs[k].a + fftRun.pairs[k].size \div 2
          /\ fftRun.pairs[k].a \in 0..(fftRun.n - 1)
          /\ fftRun.pairs[k].b \in 0..(fftRun.n - 1)
          /\ fftRun.pairs[k].j = 0 =>
                fftRun.pairs[k].wre = One /\ fftRun.pairs[k].wim = Zero
    /\ \A sz \in 1..fftRun.n : \A x \in 0..(fftRun.n - 1) :
          Cardinality(PairsOf(sz, x)) <= 1
    /\ fftRun.pc = "done" =>
          /\ Len(fftRun.stages) = IntLog2(fftRun.n)
          /\ Pow2(Len(fftRun.stages)) = fftRun.n
          /\ \A k \in 1..Len(fftRun.stages) : \A x \in 0..(fftRun.n - 1) :
                Cardinality(PairsOf(fftRun.stages[k], x)) = 1
          /\ Run(fftRun.re, fftRun.im, "ok")
                = Stages(Run(fftRun.re0, fftRun.im0, "ok"), 2, fftRun.n)

\* the loops have ended on 4 elements after two stages of two butterflies
C23_Witness ==
    /\ fftRun.pc = "done"
    /\ fftRun.stages = <<2, 4>>
    /\ Len(fftRun.pairs) = 4
    /\ \E k \in 1..Len(fftRun.pairs) :
          fftRun.pairs[k].j = 1 /\ fftRun.pairs[k].wre # One

----------------------------------------------------------------------------
(* Properties of the bundle, checked under Spec *)

\* C24: every bundle returned by stft has N = next_pow2(win), a power of
\* two >= win, hop equal to the argument, lists frames, reals and imags of
\* one length, arrays of length N, and frames[f] = f * hop, the offset at
\* which istft adds frame f back
C24_Bundle ==
    Analysed =>
        /\ bundle.N = next_pow2(win)
        /\ PowerOfTwo(bundle.N) /\ bundle.N >= win
        /\ bundle.hop = hop
        /\ Len(bundle.frames) = Len(bundle.reals)
        /\ Len(bundle.frames) = Len(bundle.imags)
        /\ \A f \in 1..Len(bundle.frames) :
              /\ Len(heap[bundle.reals[f]]) = bundle.N
              /\ Len(heap[bundle.imags[f]]) = bundle.N
              /\ bundle.frames[f] = (f - 1) * hop
        /\ call.made /\ res.err = "ok" =>
              \A k \in 1..Len(res.writes) :
                  res.writes[k].hi > res.writes[k].lo =>
                      res.writes[k].lo = bundle.frames[res.writes[k].frame + 1]

\* a bundle of three frames or more, every one added back by istft
C24_Witness ==
    /\ Analysed
    /\ Len(bundle.frames) >= 3
    /\ hop >= 2
    /\ call.made /\ res.err = "ok"
    /\ Len(res.writes) = Len(bundle.frames)
    /\ \A k \in 1..Len(res.writes) : res.writes[k].hi > res.writes[k].lo

----------------------------------------------------------------------------
(* Properties of istft with hop >= N, checked under SpecSparse *)

Covering(i) == {f \in 0..(FrameCount - 1) : CoveredBy(i, f)}

\* the time-domain sample j (0-based) of frame f, before the window
FrameSample(f, j) == ifft(heap[bundle.reals[f + 1]], heap[bundle.imags[f + 1]]).re[j + 1]

\* index i (0-based) of the result holds the sample of frame f alone
FromOneFrame(i, f) ==
    /\ res.norm[i + 1] = RMul(hann(bundle.N)[i - f * bundle.hop + 1],
                              hann(bundle.N)[i - f * bundle.hop + 1])
    /\ res.acc[i + 1] = RMul(FrameSample(f, i - f * bundle.hop),
                             hann(bundle.N)[i - f * bundle.hop + 1])
    /\ res.out[i + 1] = IF GtThreshold(res.norm[i + 1])
                        THEN RDiv(res.acc[i + 1], res.norm[i + 1])
                        ELSE res.acc[i + 1]

\* C25: when hop >= N no output index is covered by more than one frame:
\* a covered index holds the windowed sample and the squared window value
\* of its one frame, divided pointwise where that value exceeds 1e-12, and
\* an index in a gap between frames is exactly 0
C25_NoOverlap ==
    (call.made /\ res.err = "ok" /\ bundle.hop >= bundle.N) =>
        \A i \in 0..(Len(res.out) - 1) :
            /\ Cardinality(Covering(i)) <= 1
            /\ \A f \in Covering(i) : FromOneFrame(i, f)
            /\ Covering(i) = {} => res.out[i + 1] = Zero /\ res.norm[i + 1] = Zero

\* two frames with a gap between them, one sample divided by its weight
C25_Witness ==
    /\ call.made /\ res.err = "ok"
    /\ bundle.hop > bundle.N
    /\ FrameCount = 2
    /\ \E i \in 0..(Len(res.out) - 1) :
          /\ bundle.N <= i /\ i < bundle.hop
          /\ Covering(i) = {} /\ res.out[i + 1] = Zero
    /\ \E i \in 0..(Len(res.out) - 1) :
          /\ Covering(i) = {1}
          /\ res.out[i + 1] # Zero
          /\ res.out[i + 1] # res.acc[i + 1]

----------------------------------------------------------------------------
(* Properties of the frame loop of stft, checked under SpecLoop *)

LoopEnterable == Len(stftRun.signal) >= stftRun.N

StartsByHop ==
    /\ stftRun.start = Len(stftRun.st.frames) * stftRun.hop
    /\ \A f \in 1..Len(stftRun.st.frames) : stftRun.st.frames[f] = (f - 1) * stftRun.hop

\* C26 as stated: the frame start moves by hop on each iteration, stft
\* returns for every hop >= 1, and for hop <= 0 with len(signal) >= N the
\* loop never ends
C26_Original ==
    /\ [] StartsByHop
    /\ stftRun.hop >= 1 => <>(stftRun.pc = "returned")
    /\ (stftRun.hop <= 0 /\ LoopEnterable) => [](stftRun.pc = "loop")

\* C26: the frame start moves by hop on each iteration; stft returns for
\* every hop >= 1 and for every signal shorter than N; for hop = 0 with
\* len(signal) >= N the loop test stays true for ever; for hop < 0 with
\* len(signal) >= N
\* it ends, after one frame or more, with the ValueError of a slice that
\* no longer has N elements
C26_Termination ==
    /\ [] StartsByHop
    /\ (stftRun.hop >= 1 \/ ~LoopEnterable) => <>(stftRun.pc = "returned")
    /\ (stftRun.hop = 0 /\ LoopEnterable) =>
          [](stftRun.pc = "loop" /\ stftRun.start + stftRun.N <= Len(stftRun.signal))
    /\ (stftRun.hop < 0 /\ LoopEnterable) =>
          <>(stftRun.pc = "ValueError" /\ Len(stftRun.st.frames) >= 1)

\* a call with hop 2 has returned three frames
C26_Witness ==
    /\ stftRun.pc = "returned"
    /\ stftRun.hop = 2
    /\ Len(stftRun.st.frames) = 3

----------------------------------------------------------------------------
(* Properties of istft called with out_len = len(signal), as /api/process
   and /api/demucs_compare call it, checked under SpecEq *)

SynthesisAtSignalLength ==
    call.made /\ call.hasLen /\ call.out_len = Len(signal)

\* C27: when istft is handed a bundle of stft and out_len = len(signal),
\* every frame lies inside the output (f * hop + N <= out_len), so every
\* segment is overlap-added with its full length nlen = N at f * hop, no
\* slice is clipped or of negative length, and no frame is skipped
C27_FullSegments ==
    SynthesisAtSignalLength =>
        /\ \A f \in 1..Len(bundle.frames) : bundle.frames[f] + bundle.N <= call.out_len
        /\ \A k \in 1..Len(res.writes) :
              /\ res.writes[k].lo = res.writes[k].frame * bundle.hop
              /\ res.writes[k].hi - res.writes[k].lo = bundle.N
              /\ res.writes[k].hi <= call.out_len
        /\ res.err = "ok"
        /\ Len(res.writes) = Len(bundle.reals)

\* a synthesis at the length of the signal that placed three frames, the
\* last one ending at the last sample
C27_Witness ==
    /\ SynthesisAtSignalLength
    /\ Len(res.writes) = 3
    /\ res.writes[3].hi = Len(signal)
    /\ call.modifier

----------------------------------------------------------------------------
(* The indices the modifier uses, checked under SpecMod *)

\* the values of k in range(start_bin, end_bin) of a band the loop does not skip
ScaledBins(b, sr, N) ==
    IF RGt(b.widthHz, Zero) THEN start_bin(b, sr, N)..(end_bin(b, sr, N) - 1) ELSE {}

\* C28: the modifier never changes the Nyquist bin N/2 and never indexes
\* outside [0, N): every scaled k lies in [start_bin, end_bin) with
\* 0 <= k < N/2, every mirror N - k lies in (N/2, N), and the buffers keep
\* their length
C28_IndexRange ==
    /\ Len(mre) = mN /\ Len(mim) = mN
    /\ mN >= 2 => (mre[mN \div 2 + 1] = mreIn[mN \div 2 + 1]
                   /\ mim[mN \div 2 + 1] = mimIn[mN \div 2 + 1])
    /\ \A i \in 1..Len(scheme.bands) :
          \A k \in ScaledBins(scheme.bands[i], scheme.sample_rate, mN) :
              /\ 0 <= k /\ 2 * k < mN
              /\ k # 0 => (mN < 2 * (mN - k) /\ mN - k < mN)
    /\ mApplied =>
          ChangedBins \subseteq
              UNION {BinAndMirror(k, mN) :
                       k \in UNION {ScaledBins(scheme.bands[i], scheme.sample_rate, mN) :
                                      i \in 1..Len(scheme.bands)}}

\* a frame of 8 bins was modified by a band that starts at Nyquist and by
\* one that scaled bins on both sides of the unchanged Nyquist bin
C28_Witness ==
    /\ mApplied /\ mN = 8
    /\ \E i \in 1..Len(scheme.bands) :
          /\ RGt(scheme.bands[i].widthHz, Zero)
          /\ start_bin(scheme.bands[i], scheme.sample_rate, mN) >= mN \div 2
    /\ {3, 5} \subseteq ChangedBins

----------------------------------------------------------------------------
(* The output at the endpoints of the window, checked under Spec *)

\* the segments overlap-added over index i (0-based) of the output
WritesOver(i) == {k \in 1..Len(res.writes) : res.writes[k].lo <= i /\ i < res.writes[k].hi}

\* every segment over index i has it at the first or the last position of
\* the window of its frame
OnlyAtEndpoints(i) ==
    /\ WritesOver(i) # {}
    /\ \A k \in WritesOver(i) :
          \/ i = res.writes[k].frame * bundle.hop
          \/ i = res.writes[k].frame * bundle.hop + bundle.N - 1

\* C29: an output index covered only at window endpoints is 0: sample 0 of
\* every stft/istft round trip, and the last sample of the last frame when
\* no other frame covers it
C29_EndpointsZero ==
    call.made /\ res.err = "ok" =>
        /\ Len(res.out) >= 1 => res.out[1] = Zero
        /\ \A i \in 0..(Len(res.out) - 1) : OnlyAtEndpoints(i) => res.out[i + 1] = Zero

----------------------------------------------------------------------------
(* Properties of concurrent /api/demucs and /api/demucs_compare requests,
   checked under SpecDemucs *)

\* C30: with two demucs requests interleaved, each request reads only the
\* stems of its own upload, no request overwrites the input file of a
\* request in flight, and no request removes the shared output directory
\* while another one's stems are being written or are about to be read
C30_RequestIsolation ==
    /\ \A r \in DemucsRequests :
          /\ demucs.reqs[r].src \in {0, r}
          /\ demucs.reqs[r].stems \in {0, r}
    /\ demucs.overwrote = {}
    /\ demucs.cleaned = {}

====
